---------------------------- MODULE Spec2Model ----------------------------
(***************************************************************************)
(* A model of glyphsLib's converter from .glyphs source data to one font   *)
(* per master (Lib/glyphs2ufo/torf.py) and of the array writer of its      *)
(* plist serializer (Lib/glyphsLib/writer.py).                             *)
(*                                                                         *)
(* Text is a sequence of pieces; a piece is a word without white space, a  *)
(* blank " " or a line break "\n".  The source tree is a tree of tagged    *)
(* nodes: D(f) a dict, L(s) a list, V(v) any other value.                  *)
(***************************************************************************)
EXTENDS Integers, Sequences, FiniteSets, TLC

VARIABLES
    data,             \* the source tree, consumed in place
    source,           \* how the tree handed to to_robofab was put together
    italic,           \* to_robofab's arguments
    include_instances,
    debug,
    pc,               \* position in to_robofab
    feature_prefixes, \* locals of to_robofab
    classes,
    features,
    kerning_groups,
    rfonts,
    master_id_order,
    gi,               \* index of the glyph of the loop of line 53
    li,               \* index of the layer of the loop of line 67
    glyph_name,
    glyph_data,
    result,
    ret,              \* what to_robofab returned
    log,              \* what was printed
    fn_in,            \* argument of a function applied on its own
    fn_out,           \* its result
    arrayValue,       \* the value handed to Writer.writeArray
    dictValue,        \* the value handed to Writer.writeDict
    file              \* the text written to Writer.file

convVars == <<data, source, italic, include_instances, debug, pc,
              feature_prefixes, classes, features, kerning_groups, rfonts,
              master_id_order, gi, li, glyph_name, glyph_data, result, ret,
              log>>
fnVars == <<fn_in, fn_out>>
wrVars == <<arrayValue, dictValue, file>>
vars == <<convVars, fnVars, wrVars>>

-----------------------------------------------------------------------------
(* Bounds *)

MaxZones == 3
MaxStyleLen == 3
MaxCodeLen == 3
MaxArrayLen == 3
MaxKeys == 3
MaxParams == 2

-----------------------------------------------------------------------------
(* Sequences and text *)

GLYPHS_PREFIX == "com.schriftgestaltung."
ROBOFONT_PREFIX == "com.typemytype.robofont."

SP == " "
NL == "\n"
Whitespace == {SP, NL}

Last(s) == s[Len(s)]

RECURSIVE Concat(_)
Concat(ss) == IF ss = <<>> THEN <<>> ELSE Head(ss) \o Concat(Tail(ss))

\* sep.join(parts)
RECURSIVE join(_, _)
join(sep, parts) ==
    IF parts = <<>> THEN <<>>
    ELSE IF Len(parts) = 1 THEN parts[1]
    ELSE parts[1] \o sep \o join(sep, Tail(parts))

\* s.strip()
RECURSIVE lstrip(_)
lstrip(s) == IF s # <<>> /\ Head(s) \in Whitespace THEN lstrip(Tail(s)) ELSE s

RECURSIVE rstrip(_)
rstrip(s) ==
    IF s # <<>> /\ Last(s) \in Whitespace THEN rstrip(SubSeq(s, 1, Len(s) - 1))
    ELSE s

strip(s) == rstrip(lstrip(s))

\* the first index of s at or after i that holds a piece of set C, or 0
RECURSIVE find(_, _, _)
find(s, C, i) ==
    IF i > Len(s) THEN 0 ELSE IF s[i] \in C THEN i ELSE find(s, C, i + 1)

\* s.split()
RECURSIVE split(_)
split(s) ==
    LET t == lstrip(s)
        i == find(t, Whitespace, 1)
    IN  IF t = <<>> THEN <<>>
        ELSE IF i = 0 THEN <<t>>
        ELSE <<SubSeq(t, 1, i - 1)>> \o split(SubSeq(t, i + 1, Len(t)))

\* s.splitlines()
RECURSIVE splitlines(_)
splitlines(s) ==
    LET i == find(s, {NL}, 1)
    IN  IF s = <<>> THEN <<>>
        ELSE IF i = 0 THEN <<s>>
        ELSE <<SubSeq(s, 1, i - 1)>> \o splitlines(SubSeq(s, i + 1, Len(s)))

\* s.replace(old, new) for a one-piece old
RECURSIVE replace(_, _, _)
replace(s, old, new) ==
    IF s = <<>> THEN <<>>
    ELSE (IF Head(s) = old THEN new ELSE <<Head(s)>>) \o replace(Tail(s), old, new)

\* list.insert(i, x) for the Python index i >= 0 or i = -1
insert(s, i, x) ==
    LET n == Len(s)
        k == IF i < 0 THEN (IF n + i < 0 THEN 0 ELSE n + i)
             ELSE (IF i > n THEN n ELSE i)
    IN  SubSeq(s, 1, k) \o <<x>> \o SubSeq(s, k + 1, n)

-----------------------------------------------------------------------------
(* set_blue_values *)

\* the order of Python on (base, offset) pairs
zone_le(a, b) == a[1] < b[1] \/ (a[1] = b[1] /\ a[2] <= b[2])

\* sorted(alignment_zones): each zone inserted into the sorted rest
RECURSIVE sorted_zones(_)
sorted_zones(s) ==
    IF s = <<>> THEN <<>>
    ELSE LET rest == sorted_zones(Tail(s))
             x == Head(s)
             k == CHOOSE j \in 0..Len(rest) :
                     /\ \A m \in 1..j : ~ zone_le(x, rest[m])
                     /\ (j < Len(rest) => zone_le(x, rest[j + 1]))
         IN  SubSeq(rest, 1, k) \o <<x>> \o SubSeq(rest, k + 1, Len(rest))

\* sorted(pair)
sorted_pair(pair) == IF pair[1] <= pair[2] THEN pair ELSE <<pair[2], pair[1]>>

zone_is_blueAlt(base) == base > 0
zone_is_blue(base) == base >= 0

RECURSIVE blue_loop(_, _, _)
blue_loop(zones, blue_values, other_blues) ==
    IF zones = <<>> THEN [blue_values |-> blue_values, other_blues |-> other_blues]
    ELSE LET base == Head(zones)[1]
             offset == Head(zones)[2]
             pair == <<base, base + offset>>
         IN  IF zone_is_blue(base)
             THEN blue_loop(Tail(zones), blue_values \o sorted_pair(pair),
                            other_blues)
             ELSE blue_loop(Tail(zones), blue_values,
                            other_blues \o sorted_pair(pair))

set_blue_values(alignment_zones) ==
    blue_loop(sorted_zones(alignment_zones), <<>>, <<>>)

-----------------------------------------------------------------------------
(* Values of the source tree *)

D(f) == [t |-> "dict", f |-> f]
L(s) == [t |-> "list", s |-> s]
S(x) == [t |-> "str", v |-> x]
I(x) == [t |-> "int", v |-> x]
B(x) == [t |-> "bool", v |-> x]
T(x) == [t |-> "tuple", v |-> x]
DT(x) == [t |-> "datetime", v |-> x]
None == [t |-> "none"]
EmptyDict == D(<<>>)
EmptyList == L(<<>>)

\* the truth value Python gives a value
truthy(n) ==
    CASE n.t = "none" -> FALSE
      [] n.t = "bool" -> n.v
      [] n.t = "int" -> n.v # 0
      [] n.t = "str" -> n.v # <<>>
      [] n.t = "tuple" -> n.v # <<>>
      [] n.t = "list" -> n.s # <<>>
      [] n.t = "dict" -> DOMAIN n.f # {}
      [] OTHER -> TRUE

\* key in d, d[key], d.get(key, default), and d after d.pop(key)
has(d, key) == key \in DOMAIN d.f
get(d, key, default) == IF has(d, key) THEN d.f[key] ELSE default
without(d, key) == D([k \in DOMAIN d.f \ {key} |-> d.f[k]])
withoutAll(d, keys) == D([k \in DOMAIN d.f \ keys |-> d.f[k]])
put(d, key, val) ==
    D([k \in DOMAIN d.f \cup {key} |-> IF k = key THEN val ELSE d.f[k]])

\* f[key] = val on a plain mapping
Put(f, key, val) == [k \in DOMAIN f \cup {key} |-> IF k = key THEN val ELSE f[k]]

\* the elements of a list after a loop that replaced each element e by op(e)
SeqMap(op(_), s) == [i \in DOMAIN s |-> op(s[i])]

-----------------------------------------------------------------------------
(* Derived names and codes *)

\* the decimal text of a natural number
RECURSIVE str_int(_)
str_int(n) ==
    LET digit == <<"0", "1", "2", "3", "4", "5", "6", "7", "8", "9">>
    IN  IF n < 10 THEN <<digit[n + 1]>>
        ELSE str_int(n \div 10) \o <<digit[(n % 10) + 1]>>

\* s.lower()
lower_piece(p) ==
    CASE p = "Regular" -> "regular"
      [] p = "Bold" -> "bold"
      [] p = "Italic" -> "italic"
      [] p = "Light" -> "light"
      [] p = "Condensed" -> "condensed"
      [] p = "Semi" -> "semi"
      [] p = "X" -> "x"
      [] OTHER -> p

lower(s) == [i \in DOMAIN s |-> lower_piece(s[i])]

\* build_family_name, with the width popped from the master (or '')
build_family_name(base_family, width) == strip(base_family \o <<SP>> \o width)

\* build_style_name, with the weight popped from the master (or 'Regular')
build_style_name(weight, is_italic) ==
    IF is_italic
    THEN (IF weight = <<"Regular">> THEN <<"Italic">>
          ELSE weight \o <<SP, "Italic">>)
    ELSE weight

build_postscript_name(family_name, style_name) ==
    replace(family_name, SP, <<>>) \o <<"-">> \o replace(style_name, SP, <<>>)

get_weight_code(style_name) ==
    CASE style_name = <<"Thin">> -> 250
      [] style_name = <<"Light">> -> 300
      [] style_name = <<"Medium">> -> 500
      [] style_name = <<"SemiBold">> -> 600
      [] style_name = <<"Bold">> -> 700
      [] style_name = <<"ExtraBold">> -> 800
      [] style_name = <<"Black">> -> 900
      [] OTHER -> 400

get_width_code(style_name) ==
    CASE style_name = <<"Condensed">> -> 3
      [] style_name = <<"Semi", "Condensed">> -> 4
      [] OTHER -> 5

\* rfont_style_to_layer_style raises IndexError on a name without a token
style_raises(styleName, familyName) ==
    split(styleName) = <<>> \/ split(familyName) = <<>>

condensed_before_italicAlt(style) == Append(style, <<"Condensed">>)
condensed_before_italic(style) == insert(style, -1, <<"Condensed">>)

rfont_style_to_layer_style(styleName, familyName) ==
    LET style0 == split(styleName)
        family == split(familyName)
        style1 == IF style0[1] = <<"Italic">>
                  THEN insert(style0, 0, <<"Regular">>) ELSE style0
        style2 == IF Last(family) = <<"Condensed">>
                  THEN (IF style1[1] = <<"Regular">>
                        THEN [style1 EXCEPT ![1] = <<"Condensed">>]
                        ELSE IF Last(style1) = <<"Italic">>
                        THEN condensed_before_italic(style1)
                        ELSE Append(style1, <<"Condensed">>))
                  ELSE style1
    IN  join(<<SP>>, style2)

-----------------------------------------------------------------------------
(* add_features_to_rfont *)

\* a prefix, class or feature as to_robofab collected it
Prefix(name, code) == [name |-> name, code |-> code]
Class(name, code, automatic) ==
    [name |-> name, code |-> code, automatic |-> automatic]
Feature(name, code, automatic, disabled, notes) ==
    [name |-> name, code |-> code, automatic |-> automatic,
     disabled |-> disabled, notes |-> notes]

prefix_block(p) == <<"# Prefix: ">> \o p.name \o <<NL>> \o strip(p.code)

class_block(c) ==
    (IF truthy(c.automatic) THEN <<"# automatic", NL>> ELSE <<>>)
        \o <<"@">> \o c.name \o <<" = [ ">> \o c.code \o <<" ];">>

\* the lines a disabled feature adds after its header, notes and markers
disabled_linesAlt(code) ==
    <<<<"# disabled">>>> \o [i \in DOMAIN splitlines(code) |->
                                <<"#">> \o splitlines(code)[i]]
disabled_lines(code) ==
    <<<<"# disabled">>>> \o [i \in DOMAIN splitlines(code) |->
                                <<"#">> \o splitlines(code)[i]]
                       \o <<<<";">>>>

feature_lines(f) ==
    LET code == strip(f.code)
    IN  <<<<"feature ">> \o f.name \o <<" {">>>>
        \o (IF truthy(f.notes)
            THEN <<<<"# notes:">>>> \o [i \in DOMAIN splitlines(f.notes.v) |->
                                          <<"# ">> \o splitlines(f.notes.v)[i]]
            ELSE <<>>)
        \o (IF truthy(f.automatic) THEN <<<<"# automatic">>>> ELSE <<>>)
        \o (IF truthy(f.disabled) THEN disabled_lines(code)
            ELSE <<IF code = <<>> THEN <<";">> ELSE code>>)
        \o <<<<"} ">> \o f.name \o <<";">>>>

feature_def(f) == join(<<NL>>, feature_lines(f))

\* the text add_features_to_rfont assigns to rfont.features.text
features_text(prefixes, cls, feats) ==
    LET prefix_str == join(<<NL, NL>>, [i \in DOMAIN prefixes |->
                                           prefix_block(prefixes[i])])
        class_str == join(<<NL, NL>>, [i \in DOMAIN cls |-> class_block(cls[i])])
        fea_str == join(<<NL, NL>>, [i \in DOMAIN feats |-> feature_def(feats[i])])
    IN  join(<<NL, NL>>, <<prefix_str, class_str, fea_str>>)

-----------------------------------------------------------------------------
(* Writer.writeArray *)

\* a list, or a proxy over the ordered attribute of its owner
List(items) == [kind |-> "list", items |-> items]
Proxy(entries) == [kind |-> "proxy", entries |-> entries]

\* Proxy.values(): the values of the owner's ordered mapping
values(a) == [i \in DOMAIN a.entries |-> a.entries[i][2]]

\* len(arrayValue)
len(a) == IF a.kind = "proxy" THEN Len(values(a)) ELSE Len(a.items)

\* arrayValue.plistArray(): the list of the proxy's values
plistArray(a) == values(a)

is_not_lastAlt(idx, length) == idx < length
is_not_last(idx, length) == idx < length - 1

\* a dict, an OrderedDict (items in insertion order), or an object of a class
\* derived from GSBase: its attributes, the keys of its _classesForName, and
\* _keyOrder, _wrapperKeysTranslate and shouldWriteValueForKey where it has them
Dict(items) == [kind |-> "dict", items |-> items]
OrderedDict(items) == [kind |-> "ordered", items |-> items]
NoAttr == [has |-> FALSE]
Attr(v) == [has |-> TRUE, v |-> v]
GSBase(attrs, classesForName, keyOrder, wrapperKeysTranslate, unwritten) ==
    [kind |-> "object", attrs |-> attrs, classesForName |-> classesForName,
     keyOrder |-> keyOrder, wrapperKeysTranslate |-> wrapperKeysTranslate,
     unwritten |-> unwritten]

\* an attribute the object does not have: getattr raises AttributeError
Absent == [t |-> "absent"]

\* the order of the strings used as keys
Alphabet == <<"a", "b", "c", "d", "e">>
key_rank(key) == CHOOSE i \in DOMAIN Alphabet : Alphabet[i] = key
key_le(a, b) == key_rank(a) <= key_rank(b)

\* sorted(keys)
RECURSIVE sorted_keys(_)
sorted_keys(keys) ==
    IF keys = {} THEN <<>>
    ELSE LET first == CHOOSE k \in keys : \A other \in keys : key_le(k, other)
         IN  <<first>> \o sorted_keys(keys \ {first})

is_dict(d) == d.kind \in {"dict", "ordered"}
has_keyOrder(d) == d.kind = "object" /\ d.keyOrder.has
has_classesForName(d) == d.kind = "object"

\* dictValue.keys()
dict_keys(d) == [i \in DOMAIN d.items |-> d.items[i][1]]

\* dictValue[key]
dict_item(d, key) ==
    d.items[CHOOSE i \in DOMAIN d.items : d.items[i][1] = key][2]

\* the keys writeDict goes through, in its order
write_keys(d) ==
    IF has_keyOrder(d) THEN d.keyOrder.v
    ELSE IF has_classesForName(d) THEN sorted_keys(d.classesForName)
    ELSE IF d.kind = "ordered" THEN dict_keys(d)
    ELSE sorted_keys({dict_keys(d)[i] : i \in DOMAIN d.items})

\* dictValue._classesForName[key] raises KeyError
for_type_raises(d, key) ==
    has_classesForName(d) /\ key \notin d.classesForName

\* _wrapperKeysTranslate.get(key, key)
get_key(d, key) ==
    IF d.wrapperKeysTranslate.has
           /\ key \in DOMAIN d.wrapperKeysTranslate.v
    THEN d.wrapperKeysTranslate.v[key]
    ELSE key

\* the value of the key: dictValue[key], or getattr(dictValue, getKey)
resolved(d, key) ==
    IF is_dict(d) THEN dict_item(d, key)
    ELSE LET getKey == get_key(d, key)
         IN  IF getKey \in DOMAIN d.attrs THEN d.attrs[getKey] ELSE Absent

value_is_None(value) == value.t = "none"

should_not_writeAlt(d, key) == FALSE

\* hasattr(dictValue, "shouldWriteValueForKey") and
\* not dictValue.shouldWriteValueForKey(key)
should_not_write(d, key) ==
    d.kind = "object" /\ d.unwritten.has /\ key \in d.unwritten.v

\* needsQuotes(key): the key has a character outside the bare-key grammar
QuotedKeys == {"e"}
needsQuotes(key) == key \in QuotedKeys

writeKey(key) ==
    IF needsQuotes(key) THEN <<"\"", key, "\" = ">> ELSE <<key, " = ">>

RECURSIVE writeArray(_)
RECURSIVE writeValue(_)
RECURSIVE write_entries(_, _, _)

\* the loop of writeDict from the i-th key on: what it writes, and whether
\* it ends in a KeyError
write_entries(d, keys, i) ==
    IF i > Len(keys) THEN [text |-> <<>>, raised |-> FALSE]
    ELSE LET key == keys[i]
             value == resolved(d, key)
             rest == write_entries(d, keys, i + 1)
         IN  IF for_type_raises(d, key)
             THEN [text |-> <<>>, raised |-> TRUE]
             ELSE IF \/ value.t = "absent"
                     \/ value_is_None(value)
                     \/ should_not_write(d, key)
             THEN rest
             ELSE [text |-> writeKey(key) \o writeValue(value) \o <<";", NL>>
                                \o rest.text,
                   raised |-> rest.raised]

\* what writeDict writes to the file, and whether it ends in a KeyError
writeDict(d) ==
    LET entries == write_entries(d, write_keys(d), 1)
    IN  [text |-> <<"{", NL>> \o entries.text
                      \o (IF entries.raised THEN <<>> ELSE <<"}">>),
         raised |-> entries.raised]
RECURSIVE write_elements(_, _, _)

\* the loop of writeArray from element idx on
write_elements(elements, idx, length) ==
    IF idx >= Len(elements) THEN <<>>
    ELSE writeValue(elements[idx + 1])
         \o (IF is_not_last(idx, length) THEN <<",", NL>> ELSE <<NL>>)
         \o write_elements(elements, idx + 1, length)

\* what writeArray writes to the file
writeArray(a) ==
    LET length == len(a)
        elements == IF a.kind = "proxy" THEN plistArray(a) ELSE a.items
    IN  <<"(", NL>> \o write_elements(elements, 0, length) \o <<")">>

\* what writeValue writes for a list, a proxy, a dict, an integer or a boolean
writeValue(value) ==
    CASE value.t = "array" -> writeArray(value.v)
      [] value.t = "record" -> writeDict(value.v).text
      [] value.t = "int" -> str_int(value.v)
      [] value.t = "bool" -> IF value.v THEN <<"1">> ELSE <<"0">>

Arr(a) == [t |-> "array", v |-> a]
Rec(d) == [t |-> "record", v |-> d]

-----------------------------------------------------------------------------
(* Fonts *)

\* RFont(): info, lib, glyphs, kerning and groups are mappings, empty at first
RFont ==
    [info |-> <<>>, lib |-> <<>>, glyphs |-> <<>>, kerning |-> <<>>,
     groups |-> <<>>, features |-> <<>>]

\* the attributes of rfont.info and the deprecated ones among them
InfoAttributes ==
    {"familyName", "styleName", "copyright", "openTypeNameDesigner",
     "openTypeNameDesignerURL", "openTypeNameManufacturer",
     "openTypeNameManufacturerURL", "openTypeHeadCreated", "unitsPerEm",
     "versionMajor", "versionMinor", "ascender", "capHeight", "descender",
     "postscriptStemSnapH", "postscriptStemSnapV", "xHeight",
     "openTypeOS2WeightClass", "openTypeOS2WidthClass", "postscriptFontName",
     "postscriptFullName", "openTypeNameVersion", "openTypeNameUniqueID",
     "styleMapStyleName", "styleMapFamilyName",
     "openTypeNamePreferredFamilyName", "openTypeNamePreferredSubfamilyName",
     "postscriptBlueValues", "postscriptOtherBlues", "openTypeOS2VendorID",
     "note", "fontStyle", "menuName"}
DeprecatedAttributes == {"fontStyle", "menuName"}

\* two digits of a number below 100
pad2(n) == IF n < 10 THEN <<"0">> \o str_int(n) ELSE str_int(n)

\* to_rf_time: strftime('%Y/%m/%d %H:%M:%S')
to_rf_time(d) ==
    str_int(d.v.year) \o <<"/">> \o pad2(d.v.month) \o <<"/">> \o pad2(d.v.day)
        \o <<SP>> \o pad2(d.v.hour) \o <<":">> \o pad2(d.v.minute)
        \o <<":">> \o pad2(d.v.second)

\* set_redundant_data raises IndexError on a family name without a token
redundant_raises(family_name) == split(family_name) = <<>>

style_is_mappedAlt(style_name) ==
    style_name \in {<<"regular">>, <<"bold">>, <<"italic">>,
                    <<"bold", SP, "italic">>}

\* style_name.lower() in ['regular', 'bold', 'italic', 'bold italic']
style_is_mapped(style_name) ==
    lower(style_name) \in {<<"regular">>, <<"bold">>, <<"italic">>,
                           <<"bold", SP, "italic">>}

set_redundant_data(rfont) ==
    LET info == rfont.info
        family_name == info["familyName"]
        style_name == info["styleName"]
        weight == strip(replace(style_name, "Italic", <<>>))
        width == Last(split(family_name))
        lib1 == IF weight # <<>> /\ weight # <<"Regular">>
                THEN Put(rfont.lib, <<GLYPHS_PREFIX, "weight">>, weight)
                ELSE rfont.lib
        lib2 == IF "Condensed" \in {width[i] : i \in DOMAIN width}
                THEN Put(lib1, <<GLYPHS_PREFIX, "width">>, width)
                ELSE lib1
        ps_name == build_postscript_name(family_name, style_name)
        version_str == str_int(info["versionMajor"]) \o <<".">>
                           \o str_int(info["versionMinor"])
        mapped == style_is_mapped(style_name)
        new == [openTypeOS2WeightClass |-> get_weight_code(weight),
                openTypeOS2WidthClass |-> get_width_code(width),
                postscriptFontName |-> ps_name,
                postscriptFullName |-> ps_name,
                openTypeNameVersion |-> <<"Version ">> \o version_str,
                openTypeNameUniqueID |-> version_str \o <<";">> \o ps_name,
                styleMapStyleName |->
                    IF mapped THEN lower(style_name) ELSE <<"regular">>,
                styleMapFamilyName |->
                    IF mapped THEN family_name
                    ELSE family_name \o <<SP>> \o weight,
                openTypeNamePreferredFamilyName |-> family_name,
                openTypeNamePreferredSubfamilyName |-> style_name]
    IN  [rfont EXCEPT
            !.info = [k \in DOMAIN info \cup DOMAIN new |->
                         IF k \in DOMAIN new THEN new[k] ELSE info[k]],
            !.lib = lib2]

\* set_family_user_data
set_family_user_data(lib, user_data) ==
    [k \in DOMAIN lib \cup {<<key>> : key \in DOMAIN user_data.f} |->
        IF \E key \in DOMAIN user_data.f : k = <<key>>
        THEN user_data.f[k[1]] ELSE lib[k]]

\* int(x) of an integer or of a one-digit text
int_of(n) ==
    IF n.t = "int" THEN n
    ELSE I((CHOOSE i \in 1..10 : str_int(i - 1) = n.v) - 1)

\* set_master_user_data
set_master_user_data(lib, user_data) ==
    IF ~ truthy(user_data) THEN lib
    ELSE Put(lib, <<GLYPHS_PREFIX, "fontMaster.userData">>,
             D([k \in DOMAIN user_data.f |->
                   IF k \in {"GSOffsetHorizontal", "GSOffsetVertical"}
                   THEN int_of(user_data.f[k]) ELSE user_data.f[k]]))

\* set_robofont_guidelines: whether it raises KeyError, the record as consumed,
\* and the lib with the guides
guidelines_raise(glyphs_data) ==
    LET guidelines == get(glyphs_data, "guideLines", None)
    IN  /\ truthy(guidelines)
        /\ \E i \in DOMAIN guidelines.s : ~ has(guidelines.s[i], "position")

new_guideline(guideline, is_global) ==
    LET g == [x |-> guideline.f["position"].v[1],
              y |-> guideline.f["position"].v[2],
              angle |-> get(guideline, "angle", I(0)).v,
              isGlobal |-> is_global]
    IN  IF truthy(get(guideline, "locked", B(FALSE)))
        THEN Put(g, "locked", TRUE) ELSE g

guidelines_consumed(glyphs_data) ==
    LET guidelines == get(glyphs_data, "guideLines", None)
        eat(g) == withoutAll(g, {"position", "angle", "locked"})
    IN  IF ~ truthy(guidelines) THEN glyphs_data
        ELSE put(glyphs_data, "guideLines", L(SeqMap(eat, guidelines.s)))

set_robofont_guidelines(lib, glyphs_data, is_global) ==
    LET guidelines == get(glyphs_data, "guideLines", None)
    IN  IF ~ truthy(guidelines) THEN lib
        ELSE Put(lib, <<ROBOFONT_PREFIX, "guides">>,
                 [i \in DOMAIN guidelines.s |->
                     new_guideline(guidelines.s[i], is_global)])

\* parse_custom_params: whether it raises KeyError, the record as consumed,
\* and the <name, value> pairs
params_raise(d) ==
    \E i \in DOMAIN get(d, "customParameters", EmptyList).s :
        LET p == d.f["customParameters"].s[i]
        IN  ~ has(p, "name") \/ ~ has(p, "value")

params_consumed(d, misc_keys) ==
    LET eat(p) == withoutAll(p, {"name", "value"})
        d1 == withoutAll(d, {misc_keys[i] : i \in DOMAIN misc_keys})
    IN  IF has(d1, "customParameters")
        THEN put(d1, "customParameters",
                 L(SeqMap(eat, d1.f["customParameters"].s)))
        ELSE d1

RECURSIVE misc_params(_, _)
misc_params(d, misc_keys) ==
    IF misc_keys = <<>> THEN <<>>
    ELSE (IF has(d, Head(misc_keys))
          THEN <<<<Head(misc_keys), d.f[Head(misc_keys)]>>>> ELSE <<>>)
         \o misc_params(d, Tail(misc_keys))

parse_custom_params(d, misc_keys) ==
    LET ps == get(d, "customParameters", EmptyList).s
    IN  [i \in DOMAIN ps |-> <<ps[i].f["name"].v, ps[i].f["value"]>>]
        \o misc_params(d, misc_keys)

is_info_attributeAlt(name) == name \in InfoAttributes

\* hasattr(rfont.info, name) and name not in rfont.info._deprecatedAttributes
is_info_attribute(name) ==
    name \in InfoAttributes /\ name \notin DeprecatedAttributes

\* the loop body of lines 178-188: one custom parameter routed into the font
route_param(rfont, name, value) ==
    IF is_info_attribute(name)
    THEN [rfont EXCEPT !.info = Put(@, name, value)]
    ELSE IF name = "glyphOrder"
    THEN [rfont EXCEPT !.lib = Put(@, <<"public.glyphOrder">>, value)]
    ELSE IF name = "disablesNiceNames"
    THEN [rfont EXCEPT !.lib = Put(@, <<GLYPHS_PREFIX, "useNiceNames">>,
                                   I(IF truthy(value) THEN 0 ELSE 1))]
    ELSE [rfont EXCEPT !.lib = Put(@, <<GLYPHS_PREFIX, name>>, value)]

RECURSIVE route_params(_, _)
route_params(rfont, params) ==
    IF params = <<>> THEN rfont
    ELSE route_params(route_param(rfont, Head(params)[1], Head(params)[2]),
                      Tail(params))

-----------------------------------------------------------------------------
(* generate_base_fonts *)

\* the family-wide fields popped by lines 131-140
FamilyFields ==
    {"copyright", "date", "designer", "designerURL", "familyName",
     "manufacturer", "manufacturerURL", "unitsPerEm", "versionMajor",
     "versionMinor"}

\* the master's fields popped by lines 164-169 and 190
MasterFields ==
    {"ascender", "capHeight", "descender", "horizontalStems", "verticalStems",
     "xHeight", "id"}

FamilyMisc == <<"DisplayStrings", "disablesAutomaticAlignment", "disablesNiceNames">>
MasterMisc == <<"weightValue", "widthValue">>

\* the alignment zones of a master as (base, offset) pairs
zones_of(master) ==
    LET z == get(master, "alignmentZones", EmptyList).s
    IN  [i \in DOMAIN z |-> z[i].v]

\* the loop body of lines 149-193 raises KeyError or IndexError
master_raises(d, master, is_italic) ==
    \/ ~ (MasterFields \subseteq DOMAIN master.f)
    \/ redundant_raises(build_family_name(d.f["familyName"].v,
                                          get(master, "width", S(<<>>)).v))
    \/ guidelines_raise(master)
    \/ params_raise(master)

\* the font that the loop body of lines 149-193 builds for a master
master_font(d, custom_params, master, is_italic) ==
    LET info == [familyName |->
                     build_family_name(d.f["familyName"].v,
                                       get(master, "width", S(<<>>)).v),
                 styleName |->
                     build_style_name(get(master, "weight", S(<<"Regular">>)).v,
                                      is_italic),
                 copyright |-> d.f["copyright"].v,
                 openTypeNameDesigner |-> d.f["designer"].v,
                 openTypeNameDesignerURL |-> d.f["designerURL"].v,
                 openTypeNameManufacturer |-> d.f["manufacturer"].v,
                 openTypeNameManufacturerURL |-> d.f["manufacturerURL"].v,
                 openTypeHeadCreated |-> to_rf_time(d.f["date"]),
                 unitsPerEm |-> d.f["unitsPerEm"].v,
                 versionMajor |-> d.f["versionMajor"].v,
                 versionMinor |-> d.f["versionMinor"].v,
                 ascender |-> master.f["ascender"].v,
                 capHeight |-> master.f["capHeight"].v,
                 descender |-> master.f["descender"].v,
                 postscriptStemSnapH |-> master.f["horizontalStems"],
                 postscriptStemSnapV |-> master.f["verticalStems"],
                 xHeight |-> master.f["xHeight"].v]
        f1 == set_redundant_data([RFont EXCEPT !.info = info])
        blues == set_blue_values(zones_of(master))
        f2 == [f1 EXCEPT !.info = Put(Put(@, "postscriptBlueValues",
                                          blues.blue_values),
                                      "postscriptOtherBlues", blues.other_blues)]
        f3 == [f2 EXCEPT !.lib = set_family_user_data(@,
                                     get(d, "userData", EmptyDict))]
        f4 == [f3 EXCEPT !.lib = set_master_user_data(@,
                                     get(master, "userData", EmptyDict))]
        f5 == [f4 EXCEPT !.lib = set_robofont_guidelines(@, master, TRUE)]
        f6 == route_params(f5, custom_params
                                   \o parse_custom_params(master, MasterMisc))
    IN  [f6 EXCEPT !.lib = Put(@, <<GLYPHS_PREFIX, "fontMasterID">>,
                               master.f["id"].v)]

\* the master record after the loop body has consumed it
master_consumed(master) ==
    params_consumed(
        guidelines_consumed(
            withoutAll(master, MasterFields \cup
                {"width", "weight", "alignmentZones", "userData"})),
        MasterMisc)

\* generate_base_fonts raises KeyError or IndexError
base_fonts_raise(d, is_italic) ==
    \/ ~ (FamilyFields \subseteq DOMAIN d.f)
    \/ params_raise(d)
    \/ ~ has(d, "fontMaster")
    \/ \E i \in DOMAIN d.f["fontMaster"].s :
           master_raises(d, d.f["fontMaster"].s[i], is_italic)

\* the source tree after generate_base_fonts
base_fonts_consumed(d) ==
    LET d1 == params_consumed(withoutAll(d, FamilyFields \cup {"userData"}),
                              FamilyMisc)
    IN  put(d1, "fontMaster", L(SeqMap(master_consumed, d1.f["fontMaster"].s)))

\* rfonts[master_id] = rfont for the masters from the i-th on
RECURSIVE base_fonts_loop(_, _, _, _, _)
base_fonts_loop(d, custom_params, is_italic, i, fonts) ==
    LET masters == d.f["fontMaster"].s
        master == masters[i]
    IN  IF i > Len(masters) THEN fonts
        ELSE base_fonts_loop(d, custom_params, is_italic, i + 1,
                 Put(fonts, master.f["id"].v,
                     master_font(d, custom_params, master, is_italic)))

\* the rfonts that generate_base_fonts returns
base_fonts(d, is_italic) ==
    base_fonts_loop(d, parse_custom_params(d, FamilyMisc), is_italic, 1, <<>>)

\* the master_id_order that generate_base_fonts returns
base_fonts_orderAlt(d) ==
    LET masters == d.f["fontMaster"].s
    IN  [i \in DOMAIN masters |-> masters[Len(masters) + 1 - i].f["id"].v]
base_fonts_order(d) ==
    LET masters == d.f["fontMaster"].s
    IN  [i \in DOMAIN masters |-> masters[i].f["id"].v]

-----------------------------------------------------------------------------
(* load_glyph *)

IdentityTransform == T(<<1, 0, 0, 1, 0, 0>>)

\* rfont.newGlyph(name): an empty glyph of that name
RGlyph(name) ==
    [name |-> name, unicode |-> None, width |-> 0, lib |-> <<>>,
     contours |-> <<>>, components |-> <<>>, anchors |-> <<>>]

elements(d, key) == get(d, key, EmptyList).s

\* a node as the pen takes it: only 'line' and 'curve' keep their type
pen_point(node) ==
    [x |-> node.v[1], y |-> node.v[2],
     segmentType |-> IF node.v[3] \in {"line", "curve"} THEN node.v[3]
                     ELSE "None",
     smooth |-> node.v[4]]

\* draw_paths raises KeyError, IndexError or AssertionError on a path
path_raises(path) ==
    \/ ~ has(path, "nodes")
    \/ /\ ~ truthy(get(path, "closed", B(FALSE)))
       /\ \/ path.f["nodes"].s = <<>>
          \/ path.f["nodes"].s[1].v[3] # "LINE"

\* the contour draw_paths draws for a path
contour_of(path) ==
    LET nodes == path.f["nodes"].s
    IN  IF ~ truthy(get(path, "closed", B(FALSE)))
        THEN <<[x |-> nodes[1].v[1], y |-> nodes[1].v[2],
                segmentType |-> "move", smooth |-> FALSE]>>
             \o SeqMap(pen_point, Tail(nodes))
        ELSE SeqMap(pen_point, nodes)

component_of(c) ==
    [baseGlyph |-> c.f["name"].v,
     transformation |-> get(c, "transform", IdentityTransform).v]

anchor_of(a) == [name |-> a.f["name"].v, position |-> a.f["position"].v]

\* set_robofont_glyph_background raises KeyError
background_raises(layer) ==
    LET bg == get(layer, "background", None)
    IN  /\ truthy(bg)
        /\ \/ \E i \in DOMAIN elements(bg, "anchors") :
                  LET a == elements(bg, "anchors")[i]
                  IN  ~ has(a, "position") \/ ~ has(a, "name")
           \/ \E i \in DOMAIN elements(bg, "components") :
                  ~ has(elements(bg, "components")[i], "name")
           \/ \E i \in DOMAIN elements(bg, "paths") :
                  ~ has(elements(bg, "paths")[i], "closed")

background_point(node) ==
    LET pt == [x |-> node.v[1], y |-> node.v[2], smooth |-> node.v[4]]
    IN  IF node.v[3] \in {"line", "curve"}
        THEN Put(pt, "segmentType", node.v[3]) ELSE pt

background_component(c) ==
    LET c0 == [baseGlyph |-> c.f["name"].v,
               transformation |-> get(c, "transform", IdentityTransform).v]
        c1 == IF truthy(get(c, "disableAlignment", B(FALSE)))
              THEN Put(c0, "disableAlignment", TRUE) ELSE c0
    IN  IF truthy(get(c, "locked", B(FALSE))) THEN Put(c1, "locked", TRUE)
        ELSE c1

\* the layerData that set_robofont_glyph_background stores
new_background(rglyph, bg) ==
    [lib |-> get(bg, "lib", EmptyDict),
     anchors |-> [i \in DOMAIN elements(bg, "anchors") |->
                     LET a == elements(bg, "anchors")[i]
                     IN  [x |-> a.f["position"].v[1],
                          y |-> a.f["position"].v[2],
                          name |-> a.f["name"].v]],
     components |-> SeqMap(background_component, elements(bg, "components")),
     contours |-> [i \in DOMAIN elements(bg, "paths") |->
                      LET path == elements(bg, "paths")[i]
                      IN  [points |-> SeqMap(background_point,
                                             elements(path, "nodes")),
                           closed |-> path.f["closed"].v]],
     name |-> rglyph.name,
     width |-> rglyph.width,
     unicodes |-> <<>>]

set_robofont_glyph_background(rglyph, layer) ==
    LET bg == get(layer, "background", None)
    IN  IF ~ truthy(bg) THEN rglyph
        ELSE [rglyph EXCEPT !.lib =
                 Put(@, <<ROBOFONT_PREFIX, "layerData">>,
                     [background |-> new_background(rglyph, bg)])]

\* a list of records after a loop popped the given keys from each
eaten(d, key, keys) ==
    LET eat(e) == withoutAll(e, keys)
    IN  IF has(d, key) THEN put(d, key, L(SeqMap(eat, d.f[key].s))) ELSE d

background_consumed(layer) ==
    LET bg == get(layer, "background", None)
    IN  IF ~ truthy(bg) THEN layer
        ELSE put(layer, "background",
                 eaten(eaten(eaten(without(bg, "lib"),
                                   "anchors", {"position", "name"}),
                             "components",
                             {"name", "transform", "disableAlignment", "locked"}),
                       "paths", {"nodes", "closed"}))

\* the list of one boolean per component that load_glyph_libdata collects
component_flags(layer, key) ==
    [i \in DOMAIN elements(layer, "components") |->
        truthy(get(elements(layer, "components")[i], key, B(FALSE)))]

flags_lib(lib, layer, key, Key) ==
    IF \E i \in DOMAIN component_flags(layer, key) : component_flags(layer, key)[i]
    THEN Put(lib, <<GLYPHS_PREFIX, "components", Key>>,
             component_flags(layer, key))
    ELSE lib

load_glyph_libdata(rglyph, layer) ==
    LET g1 == [rglyph EXCEPT !.lib = set_robofont_guidelines(@, layer, FALSE)]
        g2 == set_robofont_glyph_background(g1, layer)
        l3 == IF has(layer, "annotations")
              THEN Put(g2.lib, <<GLYPHS_PREFIX, "annotations">>,
                       layer.f["annotations"])
              ELSE g2.lib
        l4 == IF has(layer, "hints")
              THEN Put(l3, <<GLYPHS_PREFIX, "hints">>, layer.f["hints"])
              ELSE l3
    IN  [g2 EXCEPT !.lib =
            flags_lib(flags_lib(l4, layer, "disableAlignment", "DisableAlignment"),
                      layer, "locked", "Locked")]

MetricsKeys == <<"leftMetricsKey", "rightMetricsKey", "widthMetricsKey">>

\* lines 466-473: the layer's own key, else the glyph's if it is not empty
metrics_key_valueAlt(layer, glyph_metadata, key) ==
    IF has(glyph_metadata, key) /\ truthy(glyph_metadata.f[key])
    THEN glyph_metadata.f[key]
    ELSE get(layer, key, None)
metrics_key_value(layer, glyph_metadata, key) ==
    IF has(layer, key) THEN layer.f[key]
    ELSE IF truthy(get(glyph_metadata, key, None)) THEN glyph_metadata.f[key]
    ELSE None

RECURSIVE metrics_lib(_, _, _, _)
metrics_lib(lib, layer, glyph_metadata, keys) ==
    IF keys = <<>> THEN lib
    ELSE LET val == metrics_key_value(layer, glyph_metadata, Head(keys))
         IN  metrics_lib(IF val.t = "none" THEN lib
                         ELSE Put(lib, <<GLYPHS_PREFIX, "Glyphs.", Head(keys)>>,
                                  val),
                         layer, glyph_metadata, Tail(keys))

\* load_glyph raises KeyError, IndexError or AssertionError
load_glyph_raises(layer) ==
    \/ ~ has(layer, "width")
    \/ guidelines_raise(layer)
    \/ background_raises(layer)
    \/ \E i \in DOMAIN elements(layer, "paths") :
           path_raises(elements(layer, "paths")[i])
    \/ \E i \in DOMAIN elements(layer, "components") :
           ~ has(elements(layer, "components")[i], "name")
    \/ \E i \in DOMAIN elements(layer, "anchors") :
           LET a == elements(layer, "anchors")[i]
           IN  ~ has(a, "name") \/ ~ has(a, "position")

load_glyph(rglyph, layer, glyph_metadata) ==
    LET uval == get(glyph_metadata, "unicode", None)
        last_change == get(glyph_metadata, "lastChange", None)
        g1 == IF uval.t # "none" THEN [rglyph EXCEPT !.unicode = uval]
              ELSE rglyph
        g2 == IF last_change.t # "none"
              THEN [g1 EXCEPT !.lib = Put(@, <<GLYPHS_PREFIX, "lastChange">>,
                                          to_rf_time(last_change))]
              ELSE g1
        g3 == [g2 EXCEPT !.lib = metrics_lib(@, layer, glyph_metadata,
                                             MetricsKeys),
                         !.width = layer.f["width"].v]
        g4 == load_glyph_libdata(g3, layer)
    IN  [g4 EXCEPT
            !.contours = SeqMap(contour_of, elements(layer, "paths")),
            !.components = SeqMap(component_of, elements(layer, "components")),
            !.anchors = SeqMap(anchor_of, elements(layer, "anchors"))]

\* the layer record after load_glyph
load_glyph_consumed(layer) ==
    LET l1 == withoutAll(layer, {"leftMetricsKey", "rightMetricsKey",
                                 "widthMetricsKey", "width", "annotations",
                                 "hints"})
        l2 == background_consumed(guidelines_consumed(l1))
    IN  eaten(eaten(eaten(l2, "paths", {"closed", "nodes"}),
                    "components",
                    {"disableAlignment", "locked", "name", "transform"}),
              "anchors", {"name", "position"})

-----------------------------------------------------------------------------
(* clear_data *)

RECURSIVE clear_data(_)
RECURSIVE clear_list(_)

\* "not clear_data(val)" is false: the value stays in its container
keepsAlt(val) == TRUE
keeps(val) ==
    IF val.t \in {"dict", "list"} THEN truthy(clear_data(val)) ELSE TRUE

\* the while loop of lines 117-123
clear_list(s) ==
    IF s = <<>> THEN <<>>
    ELSE (IF keeps(Head(s)) THEN <<clear_data(Head(s))>> ELSE <<>>)
         \o clear_list(Tail(s))

clear_data(d) ==
    CASE d.t = "dict" ->
            D([key \in {k \in DOMAIN d.f : keeps(d.f[k])} |-> clear_data(d.f[key])])
      [] d.t = "list" -> L(clear_list(d.s))
      [] OTHER -> d

-----------------------------------------------------------------------------
(* add_glyph_to_groups, add_groups_to_rfont *)

Sides == <<"L", "R">>

group_keysAlt(side) ==
    IF side = "L" THEN "leftKerningGroup" ELSE "rightKerningGroup"
group_keys(side) ==
    IF side = "L" THEN "rightKerningGroup" ELSE "leftKerningGroup"

\* '@MMK_%s_%s' % (side, reference)
group_name(side, reference) == <<"@MMK_", side, "_">> \o reference

RECURSIVE add_glyph_to_groups(_, _, _)
add_glyph_to_groups(groups, glyph, sides) ==
    IF sides = <<>> THEN groups
    ELSE LET group_key == group_keys(Head(sides))
             group == group_name(Head(sides), glyph.f[group_key].v)
         IN  add_glyph_to_groups(
                 IF has(glyph, group_key)
                 THEN Put(groups, group,
                          (IF group \in DOMAIN groups THEN groups[group]
                           ELSE <<>>) \o <<glyph.f["glyphname"].v>>)
                 ELSE groups,
                 glyph, Tail(sides))

\* rfont.groups after add_groups_to_rfont
add_groups_to_rfont(groups, new_groups) ==
    [name \in DOMAIN groups \cup DOMAIN new_groups |->
        IF name \in DOMAIN new_groups THEN new_groups[name] ELSE groups[name]]

-----------------------------------------------------------------------------
(* to_robofab *)

\* the characters of \w (with \d) that glyph names of the model use
WordChars == {"a", "b", "A", "0", "_"}
MaxGlyphNameLen == 31

\* re.match('^[\w\d._]{1,31}$', glyph_name); $ also matches before a last "\n"
glyph_name_matchesAlt(name) ==
    LET body == IF name # <<>> /\ Last(name) = NL
                THEN SubSeq(name, 1, Len(name) - 1) ELSE name
    IN  /\ Len(body) >= 1
        /\ \A i \in DOMAIN body : body[i] \in WordChars \cup {".", "_"}
glyph_name_matches(name) ==
    LET body == IF name # <<>> /\ Last(name) = NL
                THEN SubSeq(name, 1, Len(name) - 1) ELSE name
    IN  /\ Len(body) \in 1..MaxGlyphNameLen
        /\ \A i \in DOMAIN body : body[i] \in WordChars \cup {".", "_"}

MetadataKeys ==
    {"unicode", "lastChange", "leftMetricsKey", "rightMetricsKey",
     "widthMetricsKey"}

\* line 77 does not skip the layer
layer_is_consistentAlt(font_style, style_name) == TRUE
layer_is_consistent(font_style, style_name) == font_style = style_name

\* data.pop('instances') raises KeyError
pop_instances_raisesAlt(d) == FALSE
pop_instances_raises(d) == ~ has(d, "instances")

\* lines 40-47 raise KeyError
features_raise(d) ==
    \E key \in {"featurePrefixes", "classes", "features"} :
        \E i \in DOMAIN elements(d, key) :
            ~ has(elements(d, key)[i], "name") \/ ~ has(elements(d, key)[i], "code")

\* lines 40-48
ExtractFeatures ==
    /\ pc = "features"
    /\ IF features_raise(data)
       THEN /\ pc' = "error"
            /\ UNCHANGED <<data, feature_prefixes, classes, features,
                           kerning_groups>>
       ELSE /\ feature_prefixes' =
                   [i \in DOMAIN elements(data, "featurePrefixes") |->
                       LET f == elements(data, "featurePrefixes")[i]
                       IN  Prefix(f.f["name"].v, f.f["code"].v)]
            /\ classes' =
                   [i \in DOMAIN elements(data, "classes") |->
                       LET c == elements(data, "classes")[i]
                       IN  Class(c.f["name"].v, c.f["code"].v,
                                 get(c, "automatic", None))]
            /\ features' =
                   [i \in DOMAIN elements(data, "features") |->
                       LET f == elements(data, "features")[i]
                       IN  Feature(f.f["name"].v, f.f["code"].v,
                                   get(f, "automatic", None),
                                   get(f, "disabled", None),
                                   get(f, "notes", None))]
            /\ kerning_groups' = <<>>
            /\ data' = eaten(eaten(eaten(data, "featurePrefixes",
                                         {"name", "code"}),
                                   "classes", {"name", "code", "automatic"}),
                             "features",
                             {"name", "code", "automatic", "disabled", "notes"})
            /\ pc' = "base"
    /\ UNCHANGED <<source, italic, include_instances, debug, rfonts,
                   master_id_order, gi, li, glyph_name, glyph_data, result,
                   ret, log, fnVars, wrVars>>

\* line 51
GenerateBaseFonts ==
    /\ pc = "base"
    /\ IF base_fonts_raise(data, italic)
       THEN /\ pc' = "error"
            /\ UNCHANGED <<data, rfonts, master_id_order>>
       ELSE /\ rfonts' = base_fonts(data, italic)
            /\ master_id_order' = base_fonts_order(data)
            /\ data' = base_fonts_consumed(data)
            /\ pc' = "glyphs"
    /\ gi' = 1
    /\ UNCHANGED <<source, italic, include_instances, debug, feature_prefixes,
                   classes, features, kerning_groups, li, glyph_name,
                   glyph_data, result, ret, log, fnVars, wrVars>>

\* the tree with its gi-th glyph replaced
with_glyph(d, i, glyph) ==
    put(d, "glyphs", L([d.f["glyphs"].s EXCEPT ![i] = glyph]))

\* the glyph with its i-th layer replaced
with_layer(glyph, i, layer) ==
    put(glyph, "layers", L([glyph.f["layers"].s EXCEPT ![i] = layer]))

Illegal(name) == [msg |-> "Illegal glyph name", glyph |-> name]
Inconsistent(name, style_name) ==
    [msg |-> "Inconsistent layer id/name pair", glyph |-> name,
     layer |-> style_name]

\* lines 53-65: the head of the loop over the glyphs, up to the layers
BeginGlyph ==
    /\ pc = "glyphs"
    /\ IF ~ has(data, "glyphs")
       THEN /\ pc' = "error"
            /\ UNCHANGED <<data, kerning_groups, glyph_name, glyph_data, log, li>>
       ELSE /\ gi <= Len(data.f["glyphs"].s)
            /\ LET glyph == data.f["glyphs"].s[gi]
               IN  IF ~ has(glyph, "glyphname") \/ ~ has(glyph, "layers")
                   THEN /\ pc' = "error"
                        /\ UNCHANGED <<data, kerning_groups, glyph_name,
                                       glyph_data, log, li>>
                   ELSE /\ kerning_groups' =
                               add_glyph_to_groups(kerning_groups, glyph, Sides)
                        /\ glyph_name' = glyph.f["glyphname"].v
                        /\ log' = IF glyph_name_matches(glyph.f["glyphname"].v)
                                  THEN log
                                  ELSE Append(log, Illegal(glyph.f["glyphname"].v))
                        /\ glyph_data' =
                               D([k \in MetadataKeys \cap DOMAIN glyph.f |->
                                     glyph.f[k]])
                        /\ data' = with_glyph(data, gi,
                               withoutAll(glyph,
                                   MetadataKeys \cup
                                   {"glyphname", "leftKerningGroup",
                                    "rightKerningGroup"}))
                        /\ li' = 1
                        /\ pc' = "layers"
    /\ UNCHANGED <<source, italic, include_instances, debug, feature_prefixes,
                   classes, features, rfonts, master_id_order, gi, result, ret,
                   fnVars, wrVars>>

\* the master a layer resolves to: lines 70-71
layer_master(layer) ==
    get(layer, "associatedMasterId", layer.f["layerId"]).v

\* lines 70-76 raise KeyError or IndexError
layer_raises(layer, fonts) ==
    \/ ~ has(layer, "layerId")
    \/ layer_master(layer) \notin DOMAIN fonts
    \/ ~ has(layer, "name")
    \/ style_raises(fonts[layer_master(layer)].info["styleName"],
                    fonts[layer_master(layer)].info["familyName"])

\* lines 67-84: one layer of the glyph
ProcessLayer ==
    /\ pc = "layers"
    /\ li <= Len(data.f["glyphs"].s[gi].f["layers"].s)
    /\ LET glyph == data.f["glyphs"].s[gi]
           layer == glyph.f["layers"].s[li]
           layer_id == layer_master(layer)
           rfont == rfonts[layer_id]
           style_name == layer.f["name"].v
           font_style == rfont_style_to_layer_style(rfont.info["styleName"],
                                                    rfont.info["familyName"])
           popped == withoutAll(layer, {"layerId", "associatedMasterId", "name"})
       IN  IF layer_raises(layer, rfonts)
           THEN /\ pc' = "error"
                /\ UNCHANGED <<data, rfonts, log, li>>
           ELSE IF ~ layer_is_consistent(font_style, style_name)
           THEN /\ log' = Append(log, Inconsistent(glyph_name, style_name))
                /\ data' = with_glyph(data, gi, with_layer(glyph, li, popped))
                /\ li' = li + 1
                /\ UNCHANGED <<pc, rfonts>>
           ELSE IF load_glyph_raises(popped)
           THEN /\ pc' = "error"
                /\ UNCHANGED <<data, rfonts, log, li>>
           ELSE /\ rfonts' =
                       [rfonts EXCEPT ![layer_id].glyphs =
                           Put(@, glyph_name,
                               load_glyph(RGlyph(glyph_name), popped, glyph_data))]
                /\ data' = with_glyph(data, gi,
                               with_layer(glyph, li, load_glyph_consumed(popped)))
                /\ li' = li + 1
                /\ UNCHANGED <<pc, log>>
    /\ UNCHANGED <<source, italic, include_instances, debug, feature_prefixes,
                   classes, features, kerning_groups, master_id_order, gi,
                   glyph_name, glyph_data, result, ret, fnVars, wrVars>>

\* the loop of line 67 is over: on to the next glyph
EndGlyph ==
    /\ pc = "layers"
    /\ li > Len(data.f["glyphs"].s[gi].f["layers"].s)
    /\ gi' = gi + 1
    /\ pc' = "glyphs"
    /\ UNCHANGED <<data, source, italic, include_instances, debug,
                   feature_prefixes, classes, features, kerning_groups, rfonts,
                   master_id_order, li, glyph_name, glyph_data, result, ret,
                   log, fnVars, wrVars>>

\* rkerning after load_kerning
load_kerning(rkerning, kerning_data) ==
    LET pairs == {<<left, right>> \in
                     (DOMAIN kerning_data.f) \X
                         (UNION {DOMAIN kerning_data.f[l].f :
                                    l \in DOMAIN kerning_data.f}) :
                     right \in DOMAIN kerning_data.f[left].f}
    IN  [pair \in DOMAIN rkerning \cup pairs |->
            IF pair \in pairs THEN kerning_data.f[pair[1]].f[pair[2]].v
            ELSE rkerning[pair]]

\* lines 86-87, once the loop of line 53 is over
LoadKerning ==
    /\ pc = "glyphs"
    /\ has(data, "glyphs")
    /\ gi > Len(data.f["glyphs"].s)
    /\ LET kerning == get(data, "kerning", EmptyDict)
       IN  IF ~ (DOMAIN kerning.f \subseteq DOMAIN rfonts)
           THEN /\ pc' = "error"
                /\ UNCHANGED <<data, rfonts>>
           ELSE /\ rfonts' =
                       [id \in DOMAIN rfonts |->
                           IF id \in DOMAIN kerning.f
                           THEN [rfonts[id] EXCEPT !.kerning =
                                    load_kerning(@, kerning.f[id])]
                           ELSE rfonts[id]]
                /\ data' = without(data, "kerning")
                /\ pc' = "assemble"
    /\ UNCHANGED <<source, italic, include_instances, debug, feature_prefixes,
                   classes, features, kerning_groups, master_id_order, gi, li,
                   glyph_name, glyph_data, result, ret, log, fnVars, wrVars>>

\* the font of a master with its features and groups: lines 91-93
assembled(rfont, prefixes, cls, feats, groups) ==
    [rfont EXCEPT !.features = features_text(prefixes, cls, feats),
                  !.groups = add_groups_to_rfont(@, groups)]

\* lines 89-94
Assemble ==
    /\ pc = "assemble"
    /\ rfonts' = [id \in DOMAIN rfonts |->
                     IF \E i \in DOMAIN master_id_order : master_id_order[i] = id
                     THEN assembled(rfonts[id], feature_prefixes, classes,
                                    features, kerning_groups)
                     ELSE rfonts[id]]
    /\ result' = [i \in DOMAIN master_id_order |-> rfonts'[master_id_order[i]]]
    /\ pc' = "finish"
    /\ UNCHANGED <<data, source, italic, include_instances, debug,
                   feature_prefixes, classes, features, kerning_groups,
                   master_id_order, gi, li, glyph_name, glyph_data, ret, log,
                   fnVars, wrVars>>

NoReturn == [kind |-> "none"]

\* lines 96-101
Finish ==
    /\ pc = "finish"
    /\ IF pop_instances_raises(data)
       THEN /\ pc' = "error"
            /\ UNCHANGED <<data, ret>>
       ELSE /\ data' = without(data, "instances")
            /\ ret' = IF debug
                      THEN [kind |-> "residual", data |-> clear_data(data')]
                      ELSE IF include_instances
                      THEN [kind |-> "fonts and instances", fonts |-> result,
                            instances |-> get(data, "instances", None)]
                      ELSE [kind |-> "fonts", fonts |-> result]
            /\ pc' = "done"
    /\ UNCHANGED <<source, italic, include_instances, debug, feature_prefixes,
                   classes, features, kerning_groups, rfonts, master_id_order,
                   gi, li, glyph_name, glyph_data, result, log, fnVars, wrVars>>

-----------------------------------------------------------------------------
(* Source trees *)

MaxGlyphs == 2

MasterIds == {"M1", "M2", "M3"}

\* the fontMaster lists: every order of every non-empty set of masters
MasterOrders ==
    {ms \in UNION {[1..n -> MasterIds] : n \in 1..Cardinality(MasterIds)} :
        \A i, j \in DOMAIN ms : i # j => ms[i] # ms[j]}

Guide == D([position |-> T(<<10, 20>>), locked |-> B(TRUE)])

MasterMetrics(id) ==
    [id |-> S(id), ascender |-> I(800), capHeight |-> I(700),
     descender |-> I(-200), horizontalStems |-> L(<<I(80)>>),
     verticalStems |-> L(<<I(90)>>), xHeight |-> I(500)]

\* M1 is the regular master, M2 bold condensed, M3 light
Master(id) ==
    LET more ==
            CASE id = "M1" ->
                    [alignmentZones |-> L(<<T(<<0, 10>>), T(<<-20, -5>>)>>),
                     userData |-> D([GSOffsetHorizontal |-> S(<<"5">>)]),
                     guideLines |-> L(<<Guide>>),
                     customParameters |->
                         L(<<D([name |-> S("openTypeOS2VendorID"),
                                value |-> S(<<"ABCD">>)])>>)]
              [] id = "M2" ->
                    [weight |-> S(<<"Bold">>), width |-> S(<<"Condensed">>),
                     weightValue |-> I(700), widthValue |-> I(75)]
              [] OTHER -> [weight |-> S(<<"Light">>)]
    IN  D([k \in DOMAIN MasterMetrics(id) \cup DOMAIN more |->
              IF k \in DOMAIN more THEN more[k] ELSE MasterMetrics(id)[k]])

\* the style label that Glyphs gives the layers of a master
LayerName(id, it) ==
    CASE id = "M1" -> IF it THEN <<"Regular", SP, "Italic">> ELSE <<"Regular">>
      [] id = "M2" -> IF it THEN <<"Bold", SP, "Condensed", SP, "Italic">>
                      ELSE <<"Bold", SP, "Condensed">>
      [] OTHER -> IF it THEN <<"Light", SP, "Italic">> ELSE <<"Light">>

ClosedPath ==
    D([closed |-> B(TRUE),
       nodes |-> L(<<T(<<0, 0, "line", FALSE>>), T(<<5, 5, "offcurve", FALSE>>),
                     T(<<9, 0, "curve", TRUE>>)>>)])
OpenPath ==
    D([nodes |-> L(<<T(<<0, 0, "LINE", FALSE>>), T(<<4, 4, "line", FALSE>>)>>)])

\* a layer that names its master directly and holds an outline
SimpleLayer(id, name) ==
    D([layerId |-> S(id), name |-> S(name), width |-> I(600),
       paths |-> L(<<ClosedPath>>)])

\* a layer associated to its master, with every field the converter reads
RichLayer(id, name) ==
    D([layerId |-> S("L1"), associatedMasterId |-> S(id), name |-> S(name),
       width |-> I(500), rightMetricsKey |-> S(<<"=b">>),
       paths |-> L(<<ClosedPath, OpenPath>>),
       components |-> L(<<D([name |-> S(<<"b">>), locked |-> B(TRUE)]),
                          D([name |-> S(<<"a">>),
                             transform |-> T(<<1, 0, 0, 1, 5, 5>>)])>>),
       anchors |-> L(<<D([name |-> S(<<"top">>), position |-> T(<<3, 9>>)])>>),
       guideLines |-> L(<<Guide>>),
       annotations |-> L(<<I(1)>>),
       hints |-> L(<<I(2)>>),
       background |->
           D([anchors |-> L(<<D([name |-> S(<<"top">>),
                                 position |-> T(<<3, 9>>)])>>),
              components |-> L(<<D([name |-> S(<<"b">>)])>>),
              paths |-> L(<<ClosedPath>>)])])

LongName == [i \in 1..(MaxGlyphNameLen + 1) |-> "a"]

GlyphKinds == {"a", "b", "a-b", "long"}

\* the glyph of a kind for the masters ms:
\*   a     every layer consistent and rich; left and right kerning groups
\*   b     the layer of the first master carries a wrong style label
\*   a-b   a name with a character outside the pattern
\*   long  a name of 32 characters
Glyph(kind, ms, it) ==
    CASE kind = "a" ->
            D([glyphname |-> S(<<"a">>), unicode |-> S(<<"0061">>),
               lastChange |-> DT([year |-> 2015, month |-> 3, day |-> 7,
                                  hour |-> 12, minute |-> 0, second |-> 5]),
               leftMetricsKey |-> S(<<"=b">>),
               rightKerningGroup |-> S(<<"A">>),
               leftKerningGroup |-> S(<<"B">>),
               layers |-> L([i \in DOMAIN ms |->
                                RichLayer(ms[i], LayerName(ms[i], it))])])
      [] kind = "b" ->
            D([glyphname |-> S(<<"b">>), rightKerningGroup |-> S(<<"A">>),
               layers |-> L([i \in DOMAIN ms |->
                                SimpleLayer(ms[i],
                                    IF i = 1 THEN <<"Wrong">>
                                    ELSE LayerName(ms[i], it))])])
      [] kind = "long" ->
            D([glyphname |-> S(LongName),
               layers |-> L([i \in DOMAIN ms |->
                                SimpleLayer(ms[i], LayerName(ms[i], it))])])
      [] OTHER ->
            D([glyphname |-> S(<<"a", "-", "b">>),
               leftKerningGroup |-> S(<<"A">>),
               layers |-> L([i \in DOMAIN ms |->
                                SimpleLayer(ms[i], LayerName(ms[i], it))])])

GlyphLists == UNION {[1..n -> GlyphKinds] : n \in 0..MaxGlyphs}

\* a complete source tree
Tree(ms, kinds, it) ==
    D([familyName |-> S(<<"X">>),
       copyright |-> S(<<"c">>),
       date |-> DT([year |-> 2015, month |-> 1, day |-> 2, hour |-> 3,
                    minute |-> 4, second |-> 5]),
       designer |-> S(<<"d">>),
       designerURL |-> S(<<"u">>),
       manufacturer |-> S(<<"m">>),
       manufacturerURL |-> S(<<"v">>),
       unitsPerEm |-> I(1000),
       versionMajor |-> I(1),
       versionMinor |-> I(12),
       userData |-> D([note2 |-> I(1)]),
       customParameters |->
           L(<<D([name |-> S("glyphOrder"), value |-> L(<<S(<<"a">>)>>)]),
               D([name |-> S("Filter"), value |-> S(<<"f">>)])>>),
       disablesNiceNames |-> B(TRUE),
       fontMaster |-> L([i \in DOMAIN ms |-> Master(ms[i])]),
       glyphs |-> L([i \in DOMAIN kinds |-> Glyph(kinds[i], ms, it)]),
       kerning |-> D([id \in {ms[i] : i \in DOMAIN ms} |->
                         D([a |-> D([b |-> I(-10)])])]),
       instances |-> L(<<D([name |-> S(<<"i">>)])>>),
       featurePrefixes |->
           L(<<D([name |-> S(<<"Languagesystems">>),
                  code |-> S(<<"languagesystem", SP, "DFLT", SP, "dflt;", NL>>)])>>),
       classes |->
           L(<<D([name |-> S(<<"Upper">>), code |-> S(<<"A">>),
                  automatic |-> B(TRUE)])>>),
       features |->
           L(<<D([name |-> S(<<"liga">>),
                  code |-> S(<<"sub", SP, "a", SP, "by", SP, "b;">>),
                  disabled |-> B(TRUE)]),
               D([name |-> S(<<"kern">>), code |-> S(<<>>),
                  notes |-> S(<<"n">>)])>>)])

\* the top-level fields the interface lists as required
RequiredFields ==
    {"familyName", "copyright", "date", "designer", "designerURL",
     "manufacturer", "manufacturerURL", "unitsPerEm", "versionMajor",
     "versionMinor", "fontMaster", "glyphs", "kerning", "instances",
     "featurePrefixes", "classes", "features"}

\* values of a top-level field that the converter does not know
UnknownValues ==
    {S(<<"x">>), L(<<I(1)>>), EmptyList, D([inner |-> L(<<EmptyDict>>)])}

Complete == "complete"

\* a tree: complete, or without a required field, or with an unknown field
Source(ms, kinds, missing, unknown) ==
    [masters |-> ms, kinds |-> kinds, missing |-> missing, unknown |-> unknown]

SourceTree(src, it) ==
    LET tree == without(Tree(src.masters, src.kinds, it), src.missing)
    IN  IF src.unknown.t = "none" THEN tree
        ELSE put(tree, "unsupported", src.unknown)

\* the position before to_robofab's first line
Start(src) ==
    /\ source = src
    /\ data = SourceTree(src, italic)
    /\ pc = "features"
    /\ feature_prefixes = <<>>
    /\ classes = <<>>
    /\ features = <<>>
    /\ kerning_groups = <<>>
    /\ rfonts = <<>>
    /\ master_id_order = <<>>
    /\ gi = 1
    /\ li = 1
    /\ glyph_name = <<>>
    /\ glyph_data = EmptyDict
    /\ result = <<>>
    /\ ret = NoReturn
    /\ log = <<>>

Modes == {<<FALSE, FALSE>>, <<TRUE, FALSE>>, <<FALSE, TRUE>>}

NotCalled == [called |-> FALSE]
Value(v) == [called |-> TRUE, value |-> v]

FnIdle == fn_in = <<>> /\ fn_out = NotCalled
WrIdle == arrayValue = List(<<>>) /\ dictValue = Dict(<<>>) /\ file = <<>>

\* no conversion is under way
ConvIdle ==
    /\ source = Source(<<>>, <<>>, Complete, None)
    /\ data = EmptyDict
    /\ italic = FALSE
    /\ debug = FALSE
    /\ include_instances = FALSE
    /\ pc = "idle"
    /\ feature_prefixes = <<>>
    /\ classes = <<>>
    /\ features = <<>>
    /\ kerning_groups = <<>>
    /\ rfonts = <<>>
    /\ master_id_order = <<>>
    /\ gi = 1
    /\ li = 1
    /\ glyph_name = <<>>
    /\ glyph_data = EmptyDict
    /\ result = <<>>
    /\ ret = NoReturn
    /\ log = <<>>

\* to_robofab on a complete tree, the masters in any order
Init ==
    /\ italic \in BOOLEAN
    /\ \E mode \in Modes : debug = mode[1] /\ include_instances = mode[2]
    /\ \E ms \in MasterOrders, kinds \in GlyphLists :
           Start(Source(ms, kinds, Complete, None))
    /\ FnIdle
    /\ WrIdle

\* to_robofab in debug mode on a tree with or without an unknown field
InitResidual ==
    /\ italic \in BOOLEAN
    /\ debug = TRUE
    /\ include_instances = FALSE
    /\ \E kinds \in GlyphLists, val \in UnknownValues \cup {None} :
           Start(Source(<<"M1", "M2", "M3">>, kinds, Complete, val))
    /\ FnIdle
    /\ WrIdle

\* to_robofab on a tree that may lack one of the required fields
InitMissing ==
    /\ italic = FALSE
    /\ \E mode \in Modes : debug = mode[1] /\ include_instances = mode[2]
    /\ \E kinds \in GlyphLists, field \in RequiredFields \cup {Complete} :
           Start(Source(<<"M1", "M2", "M3">>, kinds, field, None))
    /\ FnIdle
    /\ WrIdle

Next ==
    \/ ExtractFeatures
    \/ GenerateBaseFonts
    \/ BeginGlyph
    \/ ProcessLayer
    \/ EndGlyph
    \/ LoadKerning
    \/ Assemble
    \/ Finish

Spec == Init /\ [][Next]_vars
SpecResidual == InitResidual /\ [][Next]_vars
SpecMissing == InitMissing /\ [][Next]_vars

-----------------------------------------------------------------------------
(* Properties of to_robofab *)

Returned == pc = "done"
ReturnsFonts == pc = "done" /\ ret.kind \in {"fonts", "fonts and instances"}
FontMasterID == <<GLYPHS_PREFIX, "fontMasterID">>

\* the glyphs and masters of the tree as it was handed in
SourceGlyphs == elements(SourceTree(source, italic), "glyphs")
SourceMasters == source.masters

\* the style label of a font, as line 76 computes it
FontStyle(rfont) ==
    rfont_style_to_layer_style(rfont.info["styleName"], rfont.info["familyName"])

\* C1: to_robofab returns one font per master, and the i-th font is the one
\* built from the i-th master of the fontMaster list, whatever the order of
\* the masters: it carries that master's id and that master's style
C1_FontOrder ==
    ReturnsFonts =>
        /\ Len(ret.fonts) = Len(SourceMasters)
        /\ \A i \in DOMAIN SourceMasters :
               /\ ret.fonts[i].lib[FontMasterID] = SourceMasters[i]
               /\ FontStyle(ret.fonts[i]) = LayerName(SourceMasters[i], italic)

C1_Witness ==
    /\ ReturnsFonts
    /\ SourceMasters = <<"M3", "M1", "M2">>
    /\ ret.fonts[1].lib[FontMasterID] = "M3"
    /\ ret.fonts[3].lib[FontMasterID] = "M2"

\* the layer that the loop of line 67 is at resolves to a master whose style
\* label differs from the name the layer declares
AtInconsistentLayer ==
    /\ pc = "layers"
    /\ li <= Len(data.f["glyphs"].s[gi].f["layers"].s)
    /\ LET layer == data.f["glyphs"].s[gi].f["layers"].s[li]
       IN  /\ ~ layer_raises(layer, rfonts)
           /\ FontStyle(rfonts[layer_master(layer)]) # layer.f["name"].v

\* C2: a layer whose declared name differs from the style label of its
\* master is skipped: the step creates no glyph and changes no font, prints
\* the diagnostic, and the loop goes on with the next layer
C2_SkippedLayer ==
    [][AtInconsistentLayer =>
          /\ rfonts' = rfonts
          /\ pc' = "layers"
          /\ li' = li + 1
          /\ gi' = gi
          /\ Len(log') = Len(log) + 1
          /\ log'[Len(log')].msg = "Inconsistent layer id/name pair"]_vars

\* glyph b, whose layer of the first master is inconsistent, is in the fonts
\* of the other masters only, after a glyph that was converted in all of them
C2_Witness ==
    /\ ReturnsFonts
    /\ source.kinds = <<"b", "a">>
    /\ \E i \in DOMAIN log : log[i].msg = "Inconsistent layer id/name pair"
    /\ Len(SourceMasters) = 3
    /\ <<"b">> \notin DOMAIN ret.fonts[1].glyphs
    /\ <<"b">> \in DOMAIN ret.fonts[2].glyphs
    /\ <<"a">> \in DOMAIN ret.fonts[1].glyphs

\* a value that is an empty list or dict, or holds nothing but such values
RECURSIVE Hollow(_)
Hollow(n) ==
    CASE n.t = "dict" -> \A k \in DOMAIN n.f : Hollow(n.f[k])
      [] n.t = "list" -> \A i \in DOMAIN n.s : Hollow(n.s[i])
      [] OTHER -> FALSE

\* a value without an empty list or dict at any depth
RECURSIVE Solid(_)
Solid(n) ==
    CASE n.t = "dict" -> DOMAIN n.f # {} /\ \A k \in DOMAIN n.f : Solid(n.f[k])
      [] n.t = "list" -> n.s # <<>> /\ \A i \in DOMAIN n.s : Solid(n.s[i])
      [] OTHER -> TRUE

\* a valid tree: complete, and every layer carries its master's style label
ValidSource == source.missing = Complete /\ \A i \in DOMAIN source.kinds :
                                                 source.kinds[i] # "b"

\* C3 as stated: in debug mode a valid tree with one unknown top-level field
\* leaves a residual tree that holds exactly that field
C3_Original ==
    (Returned /\ debug /\ ValidSource /\ source.unknown.t # "none") =>
        ret.data = D([unsupported |-> source.unknown])

\* C3 amended: the residual tree holds exactly the unknown field, with its
\* value, when that value is a scalar or a list or dict without empty parts;
\* an unknown field that is hollow is pruned with the rest and the residual
\* tree is empty, as it is for a valid tree without unknown fields
C3_Residual ==
    (Returned /\ debug /\ ValidSource) =>
        /\ ret.kind = "residual"
        /\ (source.unknown.t # "none" /\ Solid(source.unknown)) =>
               ret.data = D([unsupported |-> source.unknown])
        /\ (source.unknown.t = "none" \/ Hollow(source.unknown)) =>
               ret.data = EmptyDict

C3_Witness ==
    /\ Returned /\ debug /\ ValidSource
    /\ source.kinds = <<"a", "a-b">>
    /\ source.unknown = L(<<I(1)>>)
    /\ ret.data = D([unsupported |-> L(<<I(1)>>)])

\* the required fields whose absence the code tolerates
DefaultedFields == {"featurePrefixes", "classes", "features", "kerning"}

\* C4 as stated: without any one of the required fields nothing is returned
C4_Original ==
    source.missing # Complete => (pc # "done" /\ ret = NoReturn)

\* C4 amended: without familyName, copyright, date, designer, designerURL,
\* manufacturer, manufacturerURL, unitsPerEm, versionMajor, versionMinor,
\* fontMaster, glyphs or instances the conversion fails and returns nothing:
\* in generate_base_fonts for the family fields and fontMaster, at the glyph
\* loop for glyphs, and at the last step for instances.  Without
\* featurePrefixes, classes, features or kerning it takes them as empty and
\* completes
C4_MissingField ==
    /\ source.missing \in RequiredFields \ DefaultedFields =>
           (pc # "done" /\ ret = NoReturn)
    /\ source.missing \in FamilyFields \cup {"fontMaster"} =>
           pc \in {"features", "base", "error"}
    /\ source.missing = "glyphs" => pc \in {"features", "base", "glyphs", "error"}
    /\ pc = "error" => source.missing \in RequiredFields \ DefaultedFields
    /\ (pc = "finish" /\ source.missing \in DefaultedFields) =>
           /\ \A i \in DOMAIN result :
                  (source.missing = "kerning") = (result[i].kerning = <<>>)
           /\ (source.missing = "featurePrefixes") = (feature_prefixes = <<>>)
           /\ (source.missing = "classes") = (classes = <<>>)
           /\ (source.missing = "features") = (features = <<>>)

C4_Witness ==
    /\ pc = "error"
    /\ source.missing = "instances"
    /\ ret = NoReturn
    /\ result # <<>>

\* the source glyphs whose names are outside the pattern
IllegalKinds == {"a-b", "long"}
IllegalNames ==
    {SourceGlyphs[i].f["glyphname"].v :
        i \in {j \in DOMAIN source.kinds : source.kinds[j] \in IllegalKinds}}

FontGlyphNames == UNION {DOMAIN rfonts[id].glyphs : id \in DOMAIN rfonts}

\* C5 as stated: a glyph with an illegal name is in no output font
C5_Original == Returned => FontGlyphNames \cap IllegalNames = {}

\* C5 amended: a glyph whose name does not match the pattern is logged and
\* the conversion goes on without aborting, but the glyph is not skipped: it
\* is created in the font of every master for which it has a consistent layer
C5_IllegalName ==
    /\ pc # "error"
    /\ Returned =>
           /\ \A name \in IllegalNames :
                  /\ \E i \in DOMAIN log : log[i] = Illegal(name)
                  /\ \A id \in DOMAIN rfonts : name \in DOMAIN rfonts[id].glyphs
           /\ Cardinality({i \in DOMAIN log : log[i].msg = "Illegal glyph name"})
                  = Cardinality({j \in DOMAIN source.kinds :
                                    source.kinds[j] \in IllegalKinds})

C5_Witness ==
    /\ ReturnsFonts
    /\ source.kinds = <<"long", "a">>
    /\ log = <<Illegal(LongName)>>
    /\ \A i \in DOMAIN ret.fonts :
           DOMAIN ret.fonts[i].glyphs = {LongName, <<"a">>}

\* the names, in input order, of the source glyphs that declare key = x
Declaring(key, x) ==
    LET sel == SelectSeq(SourceGlyphs,
                         LAMBDA g : has(g, key) /\ g.f[key].v = x)
    IN  [i \in DOMAIN sel |-> sel[i].f["glyphname"].v]

\* the references that the source glyphs declare under key
Declared(key) ==
    {SourceGlyphs[i].f[key].v :
        i \in {j \in DOMAIN SourceGlyphs : has(SourceGlyphs[j], key)}}

\* C6: in every output font, group @MMK_L_x lists in input order, repeats
\* included, the glyphs that declare rightKerningGroup = x, group @MMK_R_y
\* those that declare leftKerningGroup = y, and there are no other groups
C6_KerningGroups ==
    ReturnsFonts =>
        \A i \in DOMAIN ret.fonts :
            LET groups == ret.fonts[i].groups
            IN  /\ DOMAIN groups =
                       {<<"@MMK_", "L", "_">> \o x :
                           x \in Declared("rightKerningGroup")}
                       \cup {<<"@MMK_", "R", "_">> \o y :
                                y \in Declared("leftKerningGroup")}
                /\ \A x \in Declared("rightKerningGroup") :
                       groups[<<"@MMK_", "L", "_">> \o x]
                           = Declaring("rightKerningGroup", x)
                /\ \A y \in Declared("leftKerningGroup") :
                       groups[<<"@MMK_", "R", "_">> \o y]
                           = Declaring("leftKerningGroup", y)

C6_Witness ==
    /\ ReturnsFonts
    /\ source.kinds = <<"b", "a">>
    /\ \A i \in DOMAIN ret.fonts :
           /\ ret.fonts[i].groups[<<"@MMK_", "L", "_", "A">>] = <<<<"b">>, <<"a">>>>
           /\ ret.fonts[i].groups[<<"@MMK_", "R", "_", "B">>] = <<<<"a">>>>

-----------------------------------------------------------------------------
(* set_blue_values on its own *)

ZoneBases == {-20, 0, 5}
ZoneOffsets == {-5, 10}
ZoneLists == UNION {[1..n -> ZoneBases \X ZoneOffsets] : n \in 0..MaxZones}

InitBlue ==
    /\ fn_in \in ZoneLists
    /\ fn_out = NotCalled
    /\ ConvIdle
    /\ WrIdle

SetBlueValues ==
    /\ ~ fn_out.called
    /\ fn_out' = Value(set_blue_values(fn_in))
    /\ UNCHANGED <<fn_in, convVars, wrVars>>

SpecBlue == InitBlue /\ [][SetBlueValues]_vars

\* the ascending pair of base and base + offset
ZonePair(z) ==
    IF z[2] >= 0 THEN <<z[1], z[1] + z[2]>> ELSE <<z[1] + z[2], z[1]>>

\* the pairs of the zones of zs on the side of zero asked for, one after another
RECURSIVE PairsOf(_, _)
PairsOf(zs, positive) ==
    IF zs = <<>> THEN <<>>
    ELSE (IF (Head(zs)[1] >= 0) = positive THEN ZonePair(Head(zs)) ELSE <<>>)
         \o PairsOf(Tail(zs), positive)

\* C8: set_blue_values goes through the zones in ascending order of base and
\* appends the ascending pair (base, base + offset) of each to
\* postscriptBlueValues when base >= 0 and to postscriptOtherBlues otherwise
C8_BlueValues ==
    fn_out.called =>
        \E p \in Permutations(DOMAIN fn_in) :
            LET zs == [i \in DOMAIN fn_in |-> fn_in[p[i]]]
            IN  /\ \A i \in 1..(Len(zs) - 1) : zs[i][1] <= zs[i + 1][1]
                /\ fn_out.value.blue_values = PairsOf(zs, TRUE)
                /\ fn_out.value.other_blues = PairsOf(zs, FALSE)

C8_Witness ==
    /\ fn_out.called
    /\ fn_in = <<<<0, 10>>, <<-20, -5>>>>
    /\ fn_out.value = [blue_values |-> <<0, 10>>, other_blues |-> <<-25, -20>>]

-----------------------------------------------------------------------------
(* rfont_style_to_layer_style on its own *)

StyleWords == {<<"Regular">>, <<"Bold">>, <<"Italic">>}
StyleNames == UNION {[1..n -> StyleWords] : n \in 1..MaxStyleLen}
FamilyNames ==
    {<<<<"X">>>>, <<<<"X">>, <<"Condensed">>>>, <<<<"Condensed">>>>,
     <<<<"X">>, <<"Semi", "Condensed">>>>}

\* the name made of the given words
Words(ws) == join(<<SP>>, ws)

InitStyle ==
    /\ fn_in \in [style : StyleNames, family : FamilyNames]
    /\ fn_out = NotCalled
    /\ ConvIdle
    /\ WrIdle

LayerStyle ==
    /\ ~ fn_out.called
    /\ ~ style_raises(Words(fn_in.style), Words(fn_in.family))
    /\ fn_out' = Value(rfont_style_to_layer_style(Words(fn_in.style),
                                                  Words(fn_in.family)))
    /\ UNCHANGED <<fn_in, convVars, wrVars>>

SpecStyle == InitStyle /\ [][LayerStyle]_vars

\* the words of the layer style for the words of a style and a family name
LayerWords(style, family) ==
    LET s1 == IF Head(style) = <<"Italic">> THEN <<<<"Regular">>>> \o style
              ELSE style
    IN  IF Last(family) # <<"Condensed">> THEN s1
        ELSE IF Head(s1) = <<"Regular">> THEN <<<<"Condensed">>>> \o Tail(s1)
        ELSE IF Last(s1) = <<"Italic">>
        THEN SubSeq(s1, 1, Len(s1) - 1) \o <<<<"Condensed">>, <<"Italic">>>>
        ELSE s1 \o <<<<"Condensed">>>>

\* C9: the layer style is the style with "Regular" put first if its first
\* word is "Italic" and, if the last word of the family name is "Condensed",
\* with "Condensed" in place of a first word "Regular", else right before a
\* last word "Italic", else at the end
C9_LayerStyle ==
    fn_out.called => fn_out.value = Words(LayerWords(fn_in.style, fn_in.family))

C9_Witness ==
    /\ fn_out.called
    /\ fn_in.family = <<<<"X">>, <<"Condensed">>>>
    /\ fn_in.style = <<<<"Bold">>, <<"Italic">>>>
    /\ fn_out.value = <<"Bold", SP, "Condensed", SP, "Italic">>

-----------------------------------------------------------------------------
(* the feature block of add_features_to_rfont on its own *)

CodePieces == {"x", SP, NL}
Codes ==
    UNION {[1..n -> CodePieces] : n \in 0..MaxCodeLen}
        \cup {<<"sub", SP, "a", SP, "by", SP, "b;">>}

InitFea ==
    /\ fn_in \in {Feature(name, code, automatic, disabled, notes) :
                     name \in {<<"liga">>, <<"kern">>},
                     code \in Codes,
                     automatic \in {None, B(TRUE)},
                     disabled \in {None, B(TRUE)},
                     notes \in {None, S(<<"n", NL, "m">>)}}
    /\ fn_out = NotCalled
    /\ ConvIdle
    /\ WrIdle

FeatureDef ==
    /\ ~ fn_out.called
    /\ fn_out' = Value(feature_def(fn_in))
    /\ UNCHANGED <<fn_in, convVars, wrVars>>

SpecFea == InitFea /\ [][FeatureDef]_vars

\* a feature that is disabled, without notes and not automatic, was rendered
DisabledRendered ==
    /\ fn_out.called
    /\ truthy(fn_in.disabled)
    /\ ~ truthy(fn_in.notes)
    /\ ~ truthy(fn_in.automatic)

\* each line of the code, without the white space around the code, after "#"
Commented(code) ==
    [i \in DOMAIN splitlines(strip(code)) |->
        <<"#">> \o splitlines(strip(code))[i]]

Header(name) == <<"feature ">> \o name \o <<" {">>
Closing(name) == <<"} ">> \o name \o <<";">>

\* C7 as stated: the block is the header, the commented code lines, a bare
\* ";" and the closing line, and nothing else
C7_Original ==
    DisabledRendered =>
        fn_out.value = join(<<NL>>, <<Header(fn_in.name)>>
                                        \o Commented(fn_in.code)
                                        \o <<<<";">>, Closing(fn_in.name)>>)

\* C7 amended: the block is the header, the marker line "# disabled", the
\* commented code lines, a bare ";" and the closing line
C7_DisabledFeature ==
    DisabledRendered =>
        fn_out.value = join(<<NL>>, <<Header(fn_in.name), <<"# disabled">>>>
                                        \o Commented(fn_in.code)
                                        \o <<<<";">>, Closing(fn_in.name)>>)

C7_Witness ==
    /\ DisabledRendered
    /\ fn_in.name = <<"liga">>
    /\ fn_in.code = <<"sub", SP, "a", SP, "by", SP, "b;">>
    /\ fn_out.value = <<"feature ", "liga", " {", NL, "# disabled", NL,
                        "#", "sub", SP, "a", SP, "by", SP, "b;", NL,
                        ";", NL, "} ", "liga", ";">>

-----------------------------------------------------------------------------
(* Writer.writeArray on its own *)

Elements == {I(0), I(12), B(TRUE), Arr(List(<<>>)), Arr(List(<<I(1), I(2)>>))}
ElementLists == UNION {[1..n -> Elements] : n \in 0..MaxArrayLen}

\* the proxy over an ordered mapping with the given values
ProxyOf(items) == Proxy([i \in DOMAIN items |-> <<i, items[i]>>])

InitWriter ==
    /\ \E items \in ElementLists : arrayValue \in {List(items), ProxyOf(items)}
    /\ dictValue = Dict(<<>>)
    /\ file = <<>>
    /\ fn_in = <<>>
    /\ fn_out = NotCalled
    /\ ConvIdle

WriteArray ==
    /\ ~ fn_out.called
    /\ file' = file \o writeArray(arrayValue)
    /\ fn_out' = Value(<<>>)
    /\ UNCHANGED <<arrayValue, dictValue, fn_in, convVars>>

SpecWriter == InitWriter /\ [][WriteArray]_vars

\* the elements of the value handed to writeArray
ArrayElements ==
    IF arrayValue.kind = "proxy"
    THEN [i \in DOMAIN arrayValue.entries |-> arrayValue.entries[i][2]]
    ELSE arrayValue.items

\* C10: writeArray writes "(", then the elements one per line with a comma
\* after each but the last, then ")", for a list of any length and for a
\* proxy rendered through plistArray()
C10_WriteArray ==
    fn_out.called =>
        file = <<"(", NL>>
                   \o join(<<",", NL>>,
                           [i \in DOMAIN ArrayElements |->
                               writeValue(ArrayElements[i])])
                   \o (IF ArrayElements = <<>> THEN <<>> ELSE <<NL>>)
                   \o <<")">>

C10_Witness ==
    /\ fn_out.called
    /\ arrayValue = ProxyOf(<<I(12), Arr(List(<<I(1), I(2)>>)), B(TRUE)>>)
    /\ file = <<"(", NL, "1", "2", ",", NL,
                "(", NL, "1", ",", NL, "2", NL, ")", ",", NL,
                "1", NL, ")">>

-----------------------------------------------------------------------------
(* Writer.writeDict on its own *)

\* the keys of the values written: MaxKeys bare keys; "e" is a quoted key
PlainKeys == {Alphabet[i] : i \in 1..MaxKeys}

\* the sequences of distinct keys of the set
KeyOrders(keys) ==
    {order \in UNION {[1..n -> keys] : n \in 0..Cardinality(keys)} :
        \A i, j \in DOMAIN order : i # j => order[i] # order[j]}

DictValues == {None, I(7), Rec(Dict(<<<<"b", B(TRUE)>>, <<"a", I(1)>>>>))}
AttrValues == {Absent, None, I(7)}

Dicts ==
    {[kind |-> kind, items |-> [i \in DOMAIN order |-> <<order[i], vals[i]>>]] :
        kind \in {"dict", "ordered"},
        order \in KeyOrders(PlainKeys) \cup {<<"e", "a">>},
        vals \in [1..Cardinality(PlainKeys) -> DictValues]}

Objects ==
    {GSBase(attrs, classesForName, keyOrder, translate, unwritten) :
        attrs \in [PlainKeys -> AttrValues],
        classesForName \in {PlainKeys, PlainKeys \ {"b"}},
        keyOrder \in {NoAttr} \cup {Attr(order) : order \in KeyOrders(PlainKeys)},
        translate \in {NoAttr, Attr([a |-> "b"])},
        unwritten \in {NoAttr, Attr({}), Attr({"a"})}}

InitDict ==
    /\ dictValue \in Dicts \cup Objects
    /\ arrayValue = List(<<>>)
    /\ file = <<>>
    /\ fn_in = <<>>
    /\ fn_out = NotCalled
    /\ ConvIdle

WriteDict ==
    /\ ~ fn_out.called
    /\ file' = file \o writeDict(dictValue).text
    /\ fn_out' = Value([raised |-> writeDict(dictValue).raised])
    /\ UNCHANGED <<arrayValue, dictValue, fn_in, convVars>>

SpecDict == InitDict /\ [][WriteDict]_vars

\* writeDict came back without an error
Written == fn_out.called /\ ~ fn_out.value.raised

\* the keys of the set in alphabetical order
Ascending(keys) ==
    CHOOSE order \in KeyOrders(keys) :
        /\ Len(order) = Cardinality(keys)
        /\ \A i, j \in DOMAIN order :
               i < j => key_rank(order[i]) < key_rank(order[j])

KeysOf(d) == {d.items[i][1] : i \in DOMAIN d.items}

\* the order the entries are expected in: the declared order of the value
\* (_keyOrder; the insertion order of an OrderedDict), else the keys of the
\* type, else the value's keys alphabetically
ExpectedOrder(d) ==
    IF d.kind = "object" /\ d.keyOrder.has THEN d.keyOrder.v
    ELSE IF d.kind = "ordered" THEN [i \in DOMAIN d.items |-> d.items[i][1]]
    ELSE IF d.kind = "object" THEN Ascending(d.classesForName)
    ELSE Ascending(KeysOf(d))

\* the value the key resolves to, Absent when there is none
ValueOf(d, key) ==
    IF d.kind = "object"
    THEN LET name == IF d.wrapperKeysTranslate.has
                           /\ key \in DOMAIN d.wrapperKeysTranslate.v
                     THEN d.wrapperKeysTranslate.v[key] ELSE key
         IN  IF name \in DOMAIN d.attrs THEN d.attrs[name] ELSE Absent
    ELSE IF key \in KeysOf(d)
         THEN d.items[CHOOSE i \in DOMAIN d.items : d.items[i][1] = key][2]
         ELSE Absent

\* the inclusion rule of the value leaves the key out
Suppressed(d, key) ==
    d.kind = "object" /\ d.unwritten.has /\ key \in d.unwritten.v

\* the key's value is present and the key is not suppressed
Emitted(d, key) ==
    /\ ValueOf(d, key).t \notin {"absent", "none"}
    /\ ~ Suppressed(d, key)

EmittedKeys(d) ==
    LET Test(key) == Emitted(d, key)
    IN  SelectSeq(ExpectedOrder(d), Test)

\* C11: writeDict writes "{", then "key = value;" on a line for exactly the
\* keys whose value is present (not absent, not None) and not suppressed by
\* the inclusion rule, in the declared key order of the value if it has
\* one, else in the key order of its type, else alphabetically, then "}"
C11_WriteDict ==
    Written =>
        file = <<"{", NL>>
                   \o Concat([i \in DOMAIN EmittedKeys(dictValue) |->
                                 LET key == EmittedKeys(dictValue)[i]
                                 IN  writeKey(key)
                                         \o writeValue(ValueOf(dictValue, key))
                                         \o <<";", NL>>])
                   \o <<"}">>

C11_Witness ==
    /\ Written
    /\ dictValue.kind = "object"
    /\ dictValue.keyOrder = Attr(<<"c", "a", "b">>)
    /\ dictValue.unwritten = Attr({"a"})
    /\ ~ dictValue.wrapperKeysTranslate.has
    /\ \A key \in {"a", "b", "c"} : dictValue.attrs[key] = I(7)
    /\ file = <<"{", NL, "c", " = ", "7", ";", NL, "b", " = ", "7", ";", NL, "}">>

-----------------------------------------------------------------------------
(* set_redundant_data on its own *)

RedundantStyleWords ==
    {<<"Regular">>, <<"Bold">>, <<"Italic">>, <<"Light">>, <<"bold">>}
RedundantStyles ==
    UNION {[1..n -> RedundantStyleWords] : n \in 1..MaxStyleLen}
RedundantFamilies == {<<<<"X">>>>, <<<<"X">>, <<"Condensed">>>>}

InitRedundant ==
    /\ fn_in \in [style : RedundantStyles, family : RedundantFamilies]
    /\ fn_out = NotCalled
    /\ ConvIdle
    /\ WrIdle

\* the font as generate_base_fonts hands it to set_redundant_data
NamedFont(family_name, style_name) ==
    [RFont EXCEPT !.info = [familyName |-> family_name,
                            styleName |-> style_name,
                            versionMajor |-> 1,
                            versionMinor |-> 0]]

SetRedundantData ==
    /\ ~ fn_out.called
    /\ ~ redundant_raises(Words(fn_in.family))
    /\ fn_out' = Value(set_redundant_data(NamedFont(Words(fn_in.family),
                                                    Words(fn_in.style))))
    /\ UNCHANGED <<fn_in, convVars, wrVars>>

SpecRedundant == InitRedundant /\ [][SetRedundantData]_vars

\* the style names of a style map, and a style name in lower case
StyleMapNames ==
    {<<<<"regular">>>>, <<<<"bold">>>>, <<<<"italic">>>>,
     <<<<"bold">>, <<"italic">>>>}
LowerCase(style) == [i \in DOMAIN style |-> lower(style[i])]

\* the style name with "Italic" removed, trimmed: what is left between the
\* first and the last of the remaining words, spaces included
Weight(style) ==
    LET kept == {i \in DOMAIN style : style[i] # <<"Italic">>}
    IN  IF kept = {} THEN <<>>
        ELSE LET first == CHOOSE i \in kept : \A j \in kept : i <= j
                 last == CHOOSE i \in kept : \A j \in kept : j <= i
             IN  Words([i \in 1..(last - first + 1) |->
                          IF style[first + i - 1] = <<"Italic">> THEN <<>>
                          ELSE style[first + i - 1]])

StyleMapped == fn_out.called /\ LowerCase(fn_in.style) \in StyleMapNames
StyleUnmapped == fn_out.called /\ LowerCase(fn_in.style) \notin StyleMapNames

\* C12 as stated: a style name that is, but for its case, one of regular,
\* bold, italic, bold italic is kept unchanged as styleMapStyleName
C12_Original ==
    StyleMapped =>
        fn_out.value.info["styleMapStyleName"] = Words(fn_in.style)

\* C12 amended: a style name that is, but for its case, one of regular, bold,
\* italic, bold italic gives its lower-case form as styleMapStyleName and the
\* family name as styleMapFamilyName; any other style name gives "regular"
\* and "{family} {weight}", the weight being the style name with "Italic"
\* removed and trimmed
C12_StyleMap ==
    /\ StyleMapped =>
          /\ fn_out.value.info["styleMapStyleName"]
                 = Words(LowerCase(fn_in.style))
          /\ fn_out.value.info["styleMapFamilyName"] = Words(fn_in.family)
    /\ StyleUnmapped =>
          /\ fn_out.value.info["styleMapStyleName"] = <<"regular">>
          /\ fn_out.value.info["styleMapFamilyName"]
                 = Words(fn_in.family) \o <<SP>> \o Weight(fn_in.style)

C12_Witness ==
    /\ fn_out.called
    /\ fn_in.style = <<<<"Bold">>, <<"Italic">>>>
    /\ fn_in.family = <<<<"X">>>>
    /\ fn_out.value.info["styleMapStyleName"] = <<"bold", SP, "italic">>
    /\ fn_out.value.info["styleMapFamilyName"] = <<"X">>

-----------------------------------------------------------------------------
(* The custom parameters of generate_base_fonts on their own *)

ParamNames ==
    {"openTypeOS2VendorID", "fontStyle", "glyphOrder", "disablesNiceNames",
     "Foo"}
ParamValues == {B(TRUE), B(FALSE)}
Params == ParamNames \X ParamValues
ParamLists(n) == UNION {[1..m -> Params] : m \in 0..n}

\* a record with the given customParameters and the given other fields
WithParams(params, fields) ==
    D([k \in {"customParameters"} \cup DOMAIN fields |->
          IF k = "customParameters"
          THEN L([i \in DOMAIN params |->
                     D([name |-> S(params[i][1]), value |-> params[i][2]])])
          ELSE fields[k]])

FamilyExtras == {<<>>, [disablesNiceNames |-> B(FALSE)]}
MasterExtras == {<<>>, [weightValue |-> I(700)]}

InitParams ==
    /\ fn_in \in [family : ParamLists(MaxParams), family_misc : FamilyExtras,
                   master : ParamLists(1), master_misc : MasterExtras]
    /\ fn_out = NotCalled
    /\ ConvIdle
    /\ WrIdle

\* the font as it is when the loop of line 178 starts
FontBefore ==
    [RFont EXCEPT !.info = [unitsPerEm |-> I(1000)],
                  !.lib = Put(<<>>, <<"family_key">>, I(1))]

\* lines 143-144 and 177-188 for one master
RouteParams ==
    /\ ~ fn_out.called
    /\ LET d == WithParams(fn_in.family, fn_in.family_misc)
           master == WithParams(fn_in.master, fn_in.master_misc)
           custom_params == parse_custom_params(d, FamilyMisc)
       IN  fn_out' = Value(route_params(
                               FontBefore,
                               custom_params
                                   \o parse_custom_params(master, MasterMisc)))
    /\ UNCHANGED <<fn_in, convVars, wrVars>>

SpecParams == InitParams /\ [][RouteParams]_vars

\* the parameters of the font: the family's customParameters and other
\* parameter fields, then the master's
ExtraParams(fields) ==
    IF DOMAIN fields = {} THEN <<>>
    ELSE LET k == CHOOSE k \in DOMAIN fields : TRUE IN <<<<k, fields[k]>>>>

AllParams ==
    fn_in.family \o ExtraParams(fn_in.family_misc)
        \o fn_in.master \o ExtraParams(fn_in.master_misc)

\* where a parameter of the name goes, and what is stored there
Destination(name) ==
    IF name \in InfoAttributes \ DeprecatedAttributes THEN <<"info", name>>
    ELSE IF name = "glyphOrder" THEN <<"lib", <<"public.glyphOrder">>>>
    ELSE IF name = "disablesNiceNames"
    THEN <<"lib", <<GLYPHS_PREFIX, "useNiceNames">>>>
    ELSE <<"lib", <<GLYPHS_PREFIX, name>>>>

Stored(name, value) ==
    IF Destination(name) = <<"lib", <<GLYPHS_PREFIX, "useNiceNames">>>>
           /\ name = "disablesNiceNames"
    THEN I(IF value.v THEN 0 ELSE 1)
    ELSE value

\* the places of a font: its info attributes and its lib keys
Places(font) ==
    {<<"info", k>> : k \in DOMAIN font.info}
        \cup {<<"lib", k>> : k \in DOMAIN font.lib}
At(font, place) ==
    IF place[1] = "info" THEN font.info[place[2]] ELSE font.lib[place[2]]

Destinations == {Destination(AllParams[i][1]) : i \in DOMAIN AllParams}

\* C13: every custom parameter of the family and of the master is stored at
\* one place of the font: the info attribute of its name if info has a
\* non-deprecated one, else lib["public.glyphOrder"] for glyphOrder, else the
\* namespaced useNiceNames with the boolean inverted for disablesNiceNames,
\* else the namespaced lib key of its name with the value as it is; a later
\* parameter for the same place replaces an earlier one, and no other place
\* of the font changes
C13_Routing ==
    fn_out.called =>
        /\ Places(fn_out.value) = Places(FontBefore) \cup Destinations
        /\ \A place \in Places(FontBefore) \ Destinations :
               At(fn_out.value, place) = At(FontBefore, place)
        /\ \A i \in DOMAIN AllParams :
               (\A j \in DOMAIN AllParams :
                    j > i => Destination(AllParams[j][1])
                                 # Destination(AllParams[i][1]))
                   => At(fn_out.value, Destination(AllParams[i][1]))
                          = Stored(AllParams[i][1], AllParams[i][2])

C13_Witness ==
    /\ fn_out.called
    /\ fn_in.family = <<<<"openTypeOS2VendorID", B(TRUE)>>,
                        <<"glyphOrder", B(TRUE)>>>>
    /\ fn_in.master = <<<<"fontStyle", B(TRUE)>>>>
    /\ fn_in.family_misc = [disablesNiceNames |-> B(FALSE)]
    /\ fn_in.master_misc = [weightValue |-> I(700)]
    /\ fn_out.value.info =
           [unitsPerEm |-> I(1000), openTypeOS2VendorID |-> B(TRUE)]
    /\ DOMAIN fn_out.value.lib =
           {<<"family_key">>, <<"public.glyphOrder">>,
            <<GLYPHS_PREFIX, "useNiceNames">>, <<GLYPHS_PREFIX, "fontStyle">>,
            <<GLYPHS_PREFIX, "weightValue">>}
    /\ fn_out.value.lib[<<GLYPHS_PREFIX, "useNiceNames">>] = I(1)
    /\ fn_out.value.lib[<<GLYPHS_PREFIX, "weightValue">>] = I(700)

-----------------------------------------------------------------------------
(* to_robofab on a glyph with metadata of its own and of its layers *)

\* what a glyph may hold under a metadata key; Absent leaves the key out
GlyphMetadata ==
    {meta \in [MetadataKeys -> {Absent, S(<<"0061">>), S(<<"=g">>), S(<<>>),
                                DT([year |-> 2015, month |-> 3, day |-> 7,
                                    hour |-> 12, minute |-> 0, second |-> 5])}] :
        /\ meta["unicode"].t = "absent" \/ meta["unicode"] = S(<<"0061">>)
        /\ meta["lastChange"].t \in {"absent", "datetime"}
        /\ \A i \in DOMAIN MetricsKeys :
               meta[MetricsKeys[i]] \in {Absent, S(<<"=g">>), S(<<>>)}}

\* the record with the fields of meta that are there
WithFields(d, meta) ==
    D([k \in DOMAIN d.f \cup {k \in DOMAIN meta : meta[k].t # "absent"} |->
          IF k \in DOMAIN meta /\ meta[k].t # "absent" THEN meta[k] ELSE d.f[k]])

\* a glyph with the metadata; its first layer declares the metrics keys
\* of own, the other layers declare none
MetaGlyph(ms, it, meta, own) ==
    WithFields(
        D([glyphname |-> S(<<"m">>),
           layers |->
               L([i \in DOMAIN ms |->
                    WithFields(SimpleLayer(ms[i], LayerName(ms[i], it)),
                               [k \in (IF i = 1 THEN own ELSE {}) |->
                                   S(<<"=l">>)])])]),
        meta)

InitMetadata ==
    /\ italic \in BOOLEAN
    /\ debug = FALSE
    /\ include_instances = FALSE
    /\ \E ms \in {<<"M1">>, <<"M2", "M1">>}, meta \in GlyphMetadata,
          own \in SUBSET {MetricsKeys[i] : i \in DOMAIN MetricsKeys} :
           /\ source = Source(ms, <<>>, Complete, None)
           /\ data = put(Tree(ms, <<>>, italic), "glyphs",
                         L(<<MetaGlyph(ms, italic, meta, own)>>))
    /\ pc = "features"
    /\ feature_prefixes = <<>>
    /\ classes = <<>>
    /\ features = <<>>
    /\ kerning_groups = <<>>
    /\ rfonts = <<>>
    /\ master_id_order = <<>>
    /\ gi = 1
    /\ li = 1
    /\ glyph_name = <<>>
    /\ glyph_data = EmptyDict
    /\ result = <<>>
    /\ ret = NoReturn
    /\ log = <<>>
    /\ FnIdle
    /\ WrIdle

SpecMetadata == InitMetadata /\ [][Next]_vars

\* the step that enters the layers of a glyph, and the step that creates
\* the glyph of a layer in the font of its master
EntersGlyph == pc = "glyphs" /\ pc' = "layers"
Materializes == pc = "layers" /\ pc' = "layers" /\ li' = li + 1 /\ log' = log

CurrentGlyph == data.f["glyphs"].s[gi]
CurrentLayer == CurrentGlyph.f["layers"].s[li]
MetricsPlace(key) == <<GLYPHS_PREFIX, "Glyphs.", key>>

\* the metadata is taken out of the glyph record when its layers are entered
ConsumedOnce ==
    /\ EntersGlyph =>
          \A k \in MetadataKeys :
              /\ has(glyph_data', k) = has(CurrentGlyph, k)
              /\ has(CurrentGlyph, k) => glyph_data'.f[k] = CurrentGlyph.f[k]
              /\ ~ has(data'.f["glyphs"].s[gi], k)
    /\ pc = "layers" => glyph_data' = glyph_data

\* unicode and lastChange of the glyph reach the glyph created for the layer
AppliedToLayer(made) ==
    /\ has(glyph_data, "unicode") => made.unicode = glyph_data.f["unicode"]
    /\ has(glyph_data, "lastChange") =>
          /\ <<GLYPHS_PREFIX, "lastChange">> \in DOMAIN made.lib
          /\ made.lib[<<GLYPHS_PREFIX, "lastChange">>]
                 = to_rf_time(glyph_data.f["lastChange"])

\* the layer's own metrics key is stored
LayerValueWins(made, key) ==
    has(CurrentLayer, key) =>
        /\ MetricsPlace(key) \in DOMAIN made.lib
        /\ made.lib[MetricsPlace(key)] = CurrentLayer.f[key]

\* C14 as stated: the value stored for a metrics key that the layer does not
\* declare is the value of the glyph
C14_Original ==
    [][Materializes =>
          LET made == rfonts'[layer_master(CurrentLayer)].glyphs[glyph_name]
          IN  \A i \in DOMAIN MetricsKeys :
                  LET key == MetricsKeys[i]
                  IN  (~ has(CurrentLayer, key) /\ has(glyph_data, key)) =>
                          /\ MetricsPlace(key) \in DOMAIN made.lib
                          /\ made.lib[MetricsPlace(key)] = glyph_data.f[key]]_vars

\* C14 amended: the metadata of a glyph is taken out of its record once,
\* before its layers, and reaches the glyph created for every layer that is
\* materialized; a metrics key holds the layer's own value when the layer
\* declares it, else the glyph's value when that is not empty, and is not
\* stored otherwise
C14_Metadata ==
    [][/\ ConsumedOnce
       /\ Materializes =>
             LET made == rfonts'[layer_master(CurrentLayer)].glyphs[glyph_name]
             IN  /\ AppliedToLayer(made)
                 /\ \A i \in DOMAIN MetricsKeys :
                        LET key == MetricsKeys[i]
                        IN  /\ LayerValueWins(made, key)
                            /\ ~ has(CurrentLayer, key) =>
                                  IF has(glyph_data, key)
                                         /\ glyph_data.f[key].v # <<>>
                                  THEN /\ MetricsPlace(key) \in DOMAIN made.lib
                                       /\ made.lib[MetricsPlace(key)]
                                              = glyph_data.f[key]
                                  ELSE MetricsPlace(key) \notin DOMAIN made.lib]_vars

\* both fonts hold the glyph: the first with the layer's own left metrics
\* key, the second with the glyph's, and both with the glyph's unicode
C14_Witness ==
    /\ pc = "done"
    /\ master_id_order = <<"M2", "M1">>
    /\ LET first == rfonts["M2"].glyphs[<<"m">>]
           second == rfonts["M1"].glyphs[<<"m">>]
       IN  /\ MetricsPlace("leftMetricsKey") \in DOMAIN first.lib
           /\ MetricsPlace("leftMetricsKey") \in DOMAIN second.lib
           /\ first.lib[MetricsPlace("leftMetricsKey")] = S(<<"=l">>)
           /\ second.lib[MetricsPlace("leftMetricsKey")] = S(<<"=g">>)
           /\ MetricsPlace("widthMetricsKey") \notin DOMAIN second.lib
           /\ first.unicode = S(<<"0061">>)
           /\ second.unicode = S(<<"0061">>)

=============================================================================
